---- MODULE Spec2Model ----
(***************************************************************************)
(* The auto-login relay of src/auto_login.py as a state machine.           *)
(*                                                                         *)
(* The relay is a Flask application with one view, proxy(path), three      *)
(* module-level globals (session, session_cookies, login_attempted) and a  *)
(* __main__ block that waits for the upstream, logs in once and then       *)
(* serves.  The upstream (n8n) is the environment: it answers /healthz,    *)
(* /rest/me, /rest/login and every forwarded request, and it may expire a  *)
(* session at any time.                                                    *)
(*                                                                         *)
(* A handler's position is pc[h]; each action is one stretch of the code   *)
(* between two blocking upstream calls.                                    *)
(*                                                                         *)
(* A cookie name is a sequence of one-character strings, so that           *)
(* k.lower() and the substring tests of check_authentication are computed  *)
(* and not assumed.  A cookie set is a function from names to values.      *)
(* "The cookies forwarded" are the cookies a call goes out with: the       *)
(* Cookie header the code hands to the requests call, which keeps requests *)
(* from adding the cookies of the Session's own jar; without that header,  *)
(* the cookies of the jar.                                                 *)
(*                                                                         *)
(* Spec runs one handler at a time, ConcSpec two handlers side by side     *)
(* with the loop of line 231 taken one turn at a time.  PasswordSpec is    *)
(* generate_secure_password of src/password_utils.py, OwnerSpec the        *)
(* bootstrap of src/create_owner.py with create_or_get_user of             *)
(* src/init_n8n_user.py; the database and the two notification endpoints   *)
(* are the environment there.  UrlSpec is remove_api_from_url of           *)
(* src/create_owner.py, called by itself.                                  *)
(***************************************************************************)
EXTENDS Integers, Sequences, FiniteSets, TLC

(***************************************************************************)
(* Bounds of the model.                                                    *)
(***************************************************************************)
\* The upstream issues session tokens 1..NumTokens.
NumTokens == 1

\* remove_api_from_url by itself is called with URLs of up to MaxUrlLen
\* characters, MaxCalls times on end.
MaxUrlLen == 8
MaxCalls == 2

Tokens == 1..NumTokens

(***************************************************************************)
(* Strings as character sequences.                                         *)
(***************************************************************************)
UpperChars == <<"A","B","C","D","E","F","G","H","I","J","K","L","M",
                "N","O","P","Q","R","S","T","U","V","W","X","Y","Z">>

LowerChars == <<"a","b","c","d","e","f","g","h","i","j","k","l","m",
                "n","o","p","q","r","s","t","u","v","w","x","y","z">>

\* str.lower() on one character
LowerChar(c) ==
    IF \E i \in 1..Len(UpperChars) : UpperChars[i] = c
    THEN LowerChars[CHOOSE i \in 1..Len(UpperChars) : UpperChars[i] = c]
    ELSE c

\* str.upper() on one character
UpperChar(c) ==
    IF \E i \in 1..Len(LowerChars) : LowerChars[i] = c
    THEN UpperChars[CHOOSE i \in 1..Len(LowerChars) : LowerChars[i] = c]
    ELSE c

IsLetter(c) == LowerChar(c) # c \/ UpperChar(c) # c

\* str.title(): a letter after a letter in lower case, every other in upper
Title(s) ==
    [i \in 1..Len(s) |->
        IF i > 1 /\ IsLetter(s[i - 1]) THEN LowerChar(s[i]) ELSE UpperChar(s[i])]

\* str.lower()
Lower(s) == [i \in 1..Len(s) |-> LowerChar(s[i])]

\* Python's  sub in s  on strings
Contains(sub, s) ==
    \E i \in 1..(Len(s) - Len(sub) + 1) : SubSeq(s, i, i + Len(sub) - 1) = sub

StrAuth    == <<"a","u","t","h">>
StrSession == <<"s","e","s","s","i","o","n">>
StrN8n     == <<"n","8","n">>

\* The cookie names of the model.
NameA       == <<"a">>
NameB       == <<"b">>
NameN8nAuth == <<"n","8","n","-","a","u","t","h">>
NameSESSION == <<"S","E","S","S","I","O","N">>

\* The header names the code tests for, in lower case.
StrHost == <<"h","o","s","t">>
StrConnection == <<"c","o","n","n","e","c","t","i","o","n">>
StrContentLength == <<"c","o","n","t","e","n","t","-","l","e","n","g","t","h">>
StrContentEncoding == <<"c","o","n","t","e","n","t","-","e","n","c","o","d","i","n","g">>
StrTransferEncoding == <<"t","r","a","n","s","f","e","r","-","e","n","c","o","d","i","n","g">>

\* The header names of the model, as they are on the wire.
HdrHost == <<"h","o","s","t">>
HdrCONNECTION == <<"C","O","N","N","E","C","T","I","O","N">>
HdrContentLengthLower == <<"c","o","n","t","e","n","t","-","l","e","n","g","t","h">>
HdrXApiKey == <<"x","-","a","p","i","-","k","e","y">>
HdrAccept == <<"A","c","c","e","p","t">>
HdrContentType == <<"C","o","n","t","e","n","t","-","T","y","p","e">>
HdrContentLength == <<"C","o","n","t","e","n","t","-","L","e","n","g","t","h">>
HdrContentEncodingLower == <<"c","o","n","t","e","n","t","-","e","n","c","o","d","i","n","g">>
HdrTRANSFERENCODING == <<"T","R","A","N","S","F","E","R","-","E","N","C","O","D","I","N","G">>
HdrConnection == <<"C","o","n","n","e","c","t","i","o","n">>
HdrXUpstream == <<"X","-","U","p","s","t","r","e","a","m">>

(***************************************************************************)
(* Cookie sets (Python dicts).                                             *)
(***************************************************************************)
EmptyDict == [k \in {} |-> 0]

Dict1(k, v) == [x \in {k} |-> v]

\* an update that keeps d's value on a key of both
UpdateKeepingOld(d, e) ==
    [k \in (DOMAIN d) \cup (DOMAIN e) |-> IF k \in DOMAIN d THEN d[k] ELSE e[k]]

\* d.update(e), and {**d, **e}: e wins on a key of both
Update(d, e) ==
    [k \in (DOMAIN d) \cup (DOMAIN e) |-> IF k \in DOMAIN e THEN e[k] ELSE d[k]]

\* a dict given by its items, a set of <<key, value>> with distinct keys
DictOf(items) ==
    [k \in {i[1] : i \in items} |-> (CHOOSE i \in items : i[1] = k)[2]]

\* d without the keys of dropped
Without(d, dropped) == [k \in (DOMAIN d) \ dropped |-> d[k]]

\* a loop that stores each cookie's name with no value of the response
StoreNames(d, cs) ==
    [k \in (DOMAIN d) \cup {cs[i].name : i \in 1..Len(cs)} |-> 0]

\* for cookie in cs: d[cookie.name] = cookie.value
RECURSIVE StoreAll(_, _)
StoreAll(d, cs) ==
    IF Len(cs) = 0 THEN d
    ELSE StoreAll(Update(d, Dict1(cs[1].name, cs[1].value)), Tail(cs))

\* the names of a sequence of cookies
CookieNames(cs) == {cs[i].name : i \in 1..Len(cs)}

(***************************************************************************)
(* Configuration and inputs.                                               *)
(***************************************************************************)
\* max_retries of wait_for_n8n
max_retries == 30

\* Flask's methods for a route declared without methods=: GET, and with it
\* HEAD and OPTIONS.  OPTIONS is answered by Flask itself (automatic
\* options); every other method gets 405 before the view is called.
RouteMethods == {"GET", "HEAD", "OPTIONS"}

Methods == {"GET", "HEAD", "OPTIONS", "POST", "PUT", "PATCH", "DELETE"}

\* The path variable of the route, as its segments; "" is <<>>.
Paths == { <<>>, <<"workflows">>, <<"rest", "..", "workflows">> }

Queries == {"", "x=1"}

AuthDict(t) == Dict1(NameN8nAuth, t)

\* The cookie sets a caller presents.
CallerCookieSets ==
    {EmptyDict, Dict1(NameA, 1), Dict1(NameSESSION, 1)}
    \cup {AuthDict(t) : t \in Tokens}
    \cup {Update(Dict1(NameA, 1), AuthDict(t)) : t \in Tokens}

\* The headers of a caller, Cookie apart: every request names its host.
PlainHeaders == DictOf({<<HdrHost, "relay">>})

\* Headers in mixed letter case, three of them hop-by-hop.
MixedHeaders ==
    DictOf({<<HdrHost, "relay">>, <<HdrCONNECTION, "keep-alive">>,
            <<HdrContentLengthLower, "0">>, <<HdrXApiKey, "k">>, <<HdrAccept, "*/*">>})

\* A request, as Flask's request object gives it; who is the caller it
\* comes from, which the relay does not look at.
RequestWith(m, p, q, c, hd) ==
    [who |-> "A", method |-> m, path |-> p, query |-> q, cookies |-> c, headers |-> hd]

\* the request r, from caller w
RequestFrom(w, r) == [r EXCEPT !.who = w]

Request(m, p, q, c) == RequestWith(m, p, q, c, PlainHeaders)

\* The inbound requests of the model: /workflows with every method, GET
\* with every path and query, GET /workflows with every cookie set, and
\* GET /workflows with headers in mixed case, all of caller A; and GET
\* /workflows without cookies of caller B.
Requests ==
    {Request(m, <<"workflows">>, "", EmptyDict) : m \in Methods}
    \cup {Request("GET", p, q, EmptyDict) : p \in Paths, q \in Queries}
    \cup {Request("GET", <<"workflows">>, "", c) : c \in CallerCookieSets}
    \cup {RequestWith("GET", <<"workflows">>, "", c, MixedHeaders) :
             c \in {EmptyDict, Dict1(NameA, 1)}}
    \cup {RequestFrom("B", Request("GET", <<"workflows">>, "", EmptyDict))}

Cookie(n, v) == [name |-> n, value |-> v]

\* The cookies of an upstream response to a forwarded request, in the order
\* the response's jar iterates them.
ResponseCookieSeqs ==
    { <<>>, <<Cookie(NameB, 3)>>, <<Cookie(NameA, 2), Cookie(NameB, 3)>> }

\* The cookies of a 200 response to POST /rest/login.
LoginCookieSeqs ==
    { <<>>, <<Cookie(NameA, 2), Cookie(NameB, 3)>> }
    \cup { <<Cookie(NameN8nAuth, t)>> : t \in Tokens }

\* requests.exceptions.RequestException raised by a call that gets no
\* response: connection refused, or the timeout.
TransportErrors == {"ConnectionError", "Timeout"}

\* The content the upstream sends with a status.
UpstreamBody(st) == IF st = 200 THEN "content" ELSE "Unauthorized"

\* The headers of an upstream response, Set-Cookie apart.
UsualHeaders ==
    DictOf({<<HdrContentType, "application/json">>, <<HdrContentLength, "7">>})

\* Headers in mixed letter case, four of them not to be copied.
EncodedHeaders ==
    DictOf({<<HdrContentType, "application/json">>, <<HdrContentLength, "7">>,
            <<HdrContentEncodingLower, "gzip">>, <<HdrTRANSFERENCODING, "chunked">>,
            <<HdrConnection, "close">>, <<HdrXUpstream, "n8n">>})

\* What a requests call gives back: a response, or an exception.
ResponseWith(st, cs, hd) ==
    [ok |-> TRUE, status |-> st, cookies |-> cs, body |-> UpstreamBody(st),
     headers |-> hd, err |-> ""]

Response(st, cs) == ResponseWith(st, cs, UsualHeaders)

Raised(e) ==
    [ok |-> FALSE, status |-> 0, cookies |-> <<>>, body |-> "",
     headers |-> EmptyDict, err |-> e]

Pending ==
    [ok |-> FALSE, status |-> 0, cookies |-> <<>>, body |-> "",
     headers |-> EmptyDict, err |-> "pending"]

(***************************************************************************)
(* State.                                                                  *)
(***************************************************************************)
Handlers == {"h1", "h2"}

\* The handlers that serve in Spec: the requests are handled one at a time.
SeqHandlers == {"h1"}

Callers == Handlers \cup {"main"}

VARIABLES
    session_cookies,     \* the global dict
    login_attempted,     \* the global flag
    wait_i,              \* i of wait_for_n8n's loop
    polls,               \* the GET /healthz wait_for_n8n has issued
    slept,               \* the seconds wait_for_n8n has slept
    upValid,             \* upstream: the session tokens it accepts
    jar,                 \* session.cookies, the jar of the requests Session
    pc,                  \* position of __main__ and of each handler
    req,                 \* request of each handler
    is_authenticated,    \* proxy's local
    auto_login_cookies,  \* what auto_login() returned: a dict, or None
    merged_cookies,      \* proxy's local
    calls,               \* the upstream calls a handler has issued
    err,                 \* the exception proxy's try block caught, or "none"
    reply,               \* the response given to the caller
    loginHist,           \* the last two calls of auto_login(), oldest first
    cookie_items         \* the iterator of line 231 over session_cookies.items()

\* wait_for_n8n's loop
startup == <<wait_i, polls, slept>>

globals == <<session_cookies, login_attempted, startup, upValid, jar>>

locals == <<req, is_authenticated, auto_login_cookies, merged_cookies, calls, err, reply>>

locals_but_calls == <<req, is_authenticated, auto_login_cookies, merged_cookies, err, reply>>

observers == <<loginHist>>

\* generate_secure_password(length) of src/password_utils.py
VARIABLES
    length,              \* the argument
    password_chars,      \* the list
    password,            \* the string returned
    gen_pc               \* position in the function; "off" when not called

password_vars == <<length, password_chars, password, gen_pc>>

\* src/create_owner.py, and create_or_get_user of src/init_n8n_user.py
VARIABLES
    main_pc,             \* position of create_owner.main; "off" when not run
    retry_i,             \* i of the wait loop that runs
    attempts,            \* the attempts that loop has made
    naps,                \* the seconds that loop has slept
    last_attempt,        \* how the latest attempt of that loop went
    results,             \* what the steps of main returned, in order
    account,             \* how far create_owner_account came
    user_rows,           \* the rows of table "user" with the owner's email
    posts,               \* the POSTs to the two notification endpoints
    credential_url,      \* what send_otn_notification returned, or NoUrl
    exit_status,         \* the argument of sys.exit, or NotExited
    user_id,             \* what create_or_get_user returned
    insert_query,        \* the INSERT create_or_get_user executed last
    runs                 \* the runs of the two scripts so far

wait_loop == <<retry_i, attempts, naps, last_attempt>>

\* what create_or_get_user writes beside the table
user_vars == <<user_id, insert_query>>

owner_vars == <<main_pc, wait_loop, results, account, user_rows, posts,
                credential_url, exit_status, user_vars, runs>>

\* remove_api_from_url of src/create_owner.py, called by itself
VARIABLES
    given_url,           \* the argument of the first call
    cleaned_urls         \* what the calls returned, each call given the
                         \* result of the call before it

url_vars == <<given_url, cleaned_urls>>

\* What no step of a handler that runs alone writes: the iterator of a
\* handler that runs beside another, and the state of the other programs.
untouched == <<cookie_items, password_vars, owner_vars, url_vars>>

relay_vars == <<globals, pc, locals, observers, cookie_items>>

beside_password == <<relay_vars, owner_vars, url_vars>>

beside_owner == <<relay_vars, password_vars, url_vars>>

vars == <<globals, pc, locals, observers, untouched>>

\* What auto_login() returns: the session_cookies dict, or None.
Returned(d) == [none |-> FALSE, cookies |-> d]

None == [none |-> TRUE, cookies |-> EmptyDict]

\* Python's truth value of auto_login()'s result: None and {} are false
Truthy(r) == ~r.none /\ DOMAIN r.cookies # {}

NoRequest == Request("", <<>>, "", EmptyDict)

\* A response to the caller: its status, its body (a fixed prefix and a
\* text), the cookies it sets and the headers copied to it from the upstream.
ReplyWith(st, prefix, text, cookies, hd) ==
    [status |-> st, prefix |-> prefix, text |-> text, cookies |-> cookies,
     headers |-> hd]

\* a response that carries no header of the upstream
Reply(st, prefix, text, cookies) == ReplyWith(st, prefix, text, cookies, EmptyDict)

NoReply == Reply(0, "", "", EmptyDict)

\* A dict's item iterator: the size of the dict when the iterator was made,
\* and the names it has yet to give.
Items(d) == [size |-> Cardinality(DOMAIN d), todo |-> DOMAIN d]

NoItems == Items(EmptyDict)

RelayInit ==
    /\ session_cookies = EmptyDict
    /\ login_attempted = FALSE
    /\ wait_i = 0
    /\ polls = 0
    /\ slept = 0
    /\ upValid = {}
    /\ jar = EmptyDict
    /\ pc = [c \in Callers |-> IF c = "main" THEN "wait" ELSE "idle"]
    /\ req = [h \in Handlers |-> NoRequest]
    /\ is_authenticated = [h \in Handlers |-> FALSE]
    /\ auto_login_cookies = [c \in Callers |-> None]
    /\ merged_cookies = [h \in Handlers |-> EmptyDict]
    /\ calls = [h \in Handlers |-> <<>>]
    /\ err = [h \in Handlers |-> "none"]
    /\ reply = [h \in Handlers |-> NoReply]
    /\ loginHist = <<>>
    /\ cookie_items = [h \in Handlers |-> NoItems]

\* generate_secure_password is not being called
PasswordOff ==
    /\ length = 0
    /\ password_chars = <<>>
    /\ password = <<>>
    /\ gen_pc = "off"

\* sys.exit has not been called
NotExited == -1

\* What send_otn_notification returns: a string, or None.
Url(u) == [none |-> FALSE, url |-> u]

NoUrl == [none |-> TRUE, url |-> <<>>]

\* create_or_get_user has not returned
NotReturned == "not returned"

\* insert_cols, insert_vals and placeholders of lines 128-130
NoInsert == [insert_cols |-> <<>>, insert_vals |-> <<>>, placeholders |-> <<>>]

\* no INSERT was executed
NotExecuted == [executed |-> FALSE, lists |-> NoInsert]

\* Neither script runs, and the table holds rows of the owner's email.
OwnerOff(rows) ==
    /\ main_pc = "off"
    /\ retry_i = 0
    /\ attempts = 0
    /\ naps = 0
    /\ last_attempt = "none"
    /\ results = <<>>
    /\ account = "none"
    /\ user_rows = rows
    /\ posts = <<>>
    /\ credential_url = NoUrl
    /\ exit_status = NotExited
    /\ user_id = NotReturned
    /\ insert_query = NotExecuted
    /\ runs = 0

\* The relay when it starts; the other programs are not running.
\* remove_api_from_url is not called by itself
UrlOff == given_url = <<>> /\ cleaned_urls = <<>>

\* the relay is started, and no other program runs
OthersOff == PasswordOff /\ UrlOff

Init == RelayInit /\ OthersOff /\ OwnerOff(0)

(***************************************************************************)
(* The upstream.                                                           *)
(***************************************************************************)
\* The upstream accepts a cookie set that carries a token it holds valid.
SessionValid(cookies) ==
    NameN8nAuth \in DOMAIN cookies /\ cookies[NameN8nAuth] \in upValid

\* GET /rest/me: 200 for a valid session and 401 otherwise, or no response
MeOutcomes(cookies) ==
    {Response(IF SessionValid(cookies) THEN 200 ELSE 401, <<>>)}
    \cup {Raised(e) : e \in TransportErrors}

\* POST /rest/login: accepted with or without cookies, rejected, or no response
LoginOutcomes ==
    {Response(200, cs) : cs \in LoginCookieSeqs}
    \cup {Response(401, <<>>)}
    \cup {Raised(e) : e \in TransportErrors}

\* A forwarded request: a status with or without cookies, or no response
ForwardOutcomes ==
    {Response(st, <<>>) : st \in {200, 401}}
    \cup {Response(200, cs) : cs \in ResponseCookieSeqs}
    \cup {Response(401, <<Cookie(NameB, 3)>>)}
    \cup {ResponseWith(200, <<>>, EncodedHeaders)}
    \cup {Raised(e) : e \in TransportErrors}

\* GET /healthz
HealthOutcomes ==
    {Response(200, <<>>), Response(503, <<>>)} \cup {Raised(e) : e \in TransportErrors}

\* The sessions the upstream opens with a response: the tokens it sets.
SessionsOpened(o) ==
    {o.cookies[i].value : i \in {j \in 1..Len(o.cookies) : o.cookies[j].name = NameN8nAuth}}

\* The upstream opens a session for a client that logged in with it directly.
OpenSession ==
    /\ \E t \in Tokens \ upValid : upValid' = upValid \cup {t}
    /\ UNCHANGED <<session_cookies, login_attempted, startup, jar, pc, locals, observers>>
    /\ UNCHANGED untouched

\* The upstream ends a session.
ExpireSession ==
    /\ \E t \in upValid : upValid' = upValid \ {t}
    /\ UNCHANGED <<session_cookies, login_attempted, startup, jar, pc, locals, observers>>
    /\ UNCHANGED untouched

(***************************************************************************)
(* __main__ and wait_for_n8n.                                              *)
(***************************************************************************)
\* a loop that sleeps after every failed attempt
SleepsAfterEvery(i) == TRUE

\* line 42: after a failed attempt the loop sleeps, but after the last
SleepsAfter(i) == i < max_retries - 1

\* line 33: range(max_retries) has a next i
LoopGoesOn(i) == i + 1 < max_retries

\* One turn of wait_for_n8n's loop: a GET /healthz, and the return on 200
\* ("ready", line 38) or after the last attempt ("gaveup", line 47).
WaitForN8n ==
    /\ pc["main"] = "wait"
    /\ polls' = polls + 1
    /\ \E o \in HealthOutcomes :
         IF o.ok /\ o.status = 200
         THEN /\ pc' = [pc EXCEPT !["main"] = "ready"]
              /\ UNCHANGED <<wait_i, slept>>
         ELSE /\ slept' = (IF SleepsAfter(wait_i) THEN slept + 2 ELSE slept)
              /\ IF LoopGoesOn(wait_i)
                 THEN /\ wait_i' = wait_i + 1
                      /\ pc' = pc
                 ELSE /\ wait_i' = wait_i
                      /\ pc' = [pc EXCEPT !["main"] = "gaveup"]
    /\ UNCHANGED <<session_cookies, login_attempted, upValid, jar, locals, observers>>
    /\ UNCHANGED untouched

\* lines 247-250: wait_for_n8n() has returned, its value is not looked at,
\* and __main__ calls auto_login(); the loop's counters end with its frame.
StartLogin ==
    /\ pc["main"] \in {"ready", "gaveup"}
    /\ pc' = [pc EXCEPT !["main"] = "login"]
    /\ wait_i' = 0
    /\ polls' = 0
    /\ slept' = 0
    /\ UNCHANGED <<session_cookies, login_attempted, upValid, jar, locals, observers>>
    /\ UNCHANGED untouched

(***************************************************************************)
(* auto_login().                                                           *)
(***************************************************************************)
\* A requests call: it goes out with cookies, its other headers are hd.
CallWith(ep, m, path, q, cookies, hd, o) ==
    [ep |-> ep, method |-> m, path |-> path, query |-> q, cookies |-> cookies,
     headers |-> hd, outcome |-> o]

Call(ep, m, path, q, cookies, o) == CallWith(ep, m, path, q, cookies, EmptyDict, o)

\* The Session keeps the cookies of every response it receives.
JarAfter(o) == IF o.ok THEN StoreAll(jar, o.cookies) ELSE jar

\* a Session that sends the Cookie header it is given and nothing of its jar
SentCookiesOfHeaderOnly(header) == header

\* The cookies a call of the Session goes out with: the Cookie header it
\* is given; without one, the cookies of the Session's jar.
SentCookies(header) == IF DOMAIN header # {} THEN header ELSE jar

LoginCall(o) ==
    CallWith("login", "POST", <<"rest", "login">>, "", SentCookies(EmptyDict),
             DictOf({<<HdrContentType, "application/json">>}), o)

\* line 54 without its test of session_cookies: the flag alone
LoginCachedByFlagAlone == login_attempted

\* line 54: the cached session is returned without a POST
LoginCached == login_attempted /\ DOMAIN session_cookies # {}

\* lines 75-88 with the cache replaced by the response's cookies
CookiesAfterLoginReplacing(o) ==
    IF o.ok /\ o.status = 200 THEN StoreAll(EmptyDict, o.cookies)
    ELSE session_cookies

\* lines 75-88: the response's cookies go into session_cookies
CookiesAfterLogin(o) ==
    IF o.ok /\ o.status = 200 THEN StoreAll(session_cookies, o.cookies)
    ELSE session_cookies

\* an auto_login() that returns the cache whatever the answer was
LoginResultAlwaysTheCache(o) == Returned(CookiesAfterLogin(o))

\* lines 75-95: the dict on 200; None on another status or an exception
LoginResult(o) ==
    IF o.ok /\ o.status = 200 THEN Returned(CookiesAfterLogin(o)) ELSE None

\* line 138 with the two dicts swapped: the caller's cookies win
MergedCallerWins(incoming, r) ==
    IF Truthy(r) THEN Update(r.cookies, incoming) ELSE incoming

\* lines 136-140 of proxy: the login cookies win over the caller's
Merged(incoming, r) ==
    IF Truthy(r) THEN Update(incoming, r.cookies) ELSE incoming

\* loginHist observes auto_login(): how each of its last two calls went,
\*   "cached"   line 55, the cached cookies returned without a POST
\*   "posting"  the POST is out and not yet answered
\*   "warm"     POST answered 200, session_cookies not empty afterwards
\*   "cold"     POST answered 200, session_cookies empty afterwards
\*   "failed"   POST answered with another status, or an exception
\* and it starts afresh when someone else than auto_login() changes
\* session_cookies, so that it holds calls with no change of the cache in
\* between.
Logged(e) ==
    IF Len(loginHist) < 2 THEN Append(loginHist, e) ELSE <<loginHist[2], e>>

SetLast(e) ==
    IF Len(loginHist) = 0 THEN <<e>> ELSE [loginHist EXCEPT ![Len(loginHist)] = e]

HowLoginWent(o) ==
    IF o.ok /\ o.status = 200
    THEN (IF DOMAIN CookiesAfterLogin(o) # {} THEN "warm" ELSE "cold")
    ELSE "failed"

\* loginHist after session_cookies went from old to new outside auto_login()
HistAfterWrite(old, new) == IF new # old THEN <<>> ELSE loginHist

\* What follows auto_login() for its caller: __main__ starts to serve,
\* proxy merges the cookies and goes on to forward.
AfterLogin(c, r) ==
    /\ auto_login_cookies' = [auto_login_cookies EXCEPT ![c] = r]
    /\ IF c = "main"
       THEN /\ pc' = [pc EXCEPT ![c] = "serving"]
            /\ UNCHANGED <<merged_cookies, req, is_authenticated, err, reply>>
       ELSE /\ pc' = [pc EXCEPT ![c] = "send"]
            /\ merged_cookies' = [merged_cookies EXCEPT ![c] = Merged(req[c].cookies, r)]
            /\ UNCHANGED <<req, is_authenticated, err, reply>>

\* auto_login() up to its POST: either the cached cookies are returned, or
\* the POST goes out.
LoginEnter(c) ==
    /\ pc[c] = "login"
    /\ IF LoginCached
       THEN /\ AfterLogin(c, Returned(session_cookies))
            /\ loginHist' = Logged("cached")
            /\ UNCHANGED calls
       ELSE /\ pc' = [pc EXCEPT ![c] = "loginPost"]
            /\ calls' = IF c = "main" THEN calls
                        ELSE [calls EXCEPT ![c] = Append(@, LoginCall(Pending))]
            /\ loginHist' = Logged("posting")
            /\ UNCHANGED <<locals_but_calls>>
    /\ UNCHANGED <<globals>>
    /\ UNCHANGED untouched

\* auto_login() from the answer to its POST on, the answer one of O.
LoginReturnOf(c, O) ==
    /\ pc[c] = "loginPost"
    /\ \E o \in O :
         /\ session_cookies' = CookiesAfterLogin(o)
         /\ login_attempted' = (IF o.ok /\ o.status = 200 THEN TRUE ELSE login_attempted)
         /\ upValid' = upValid \cup SessionsOpened(o)
         /\ jar' = JarAfter(o)
         /\ AfterLogin(c, LoginResult(o))
         /\ calls' = IF c = "main" THEN calls
                     ELSE [calls EXCEPT ![c][Len(calls[c])].outcome = o]
         /\ loginHist' = SetLast(HowLoginWent(o))
    /\ UNCHANGED startup
    /\ UNCHANGED untouched

LoginReturn(c) == LoginReturnOf(c, LoginOutcomes)

(***************************************************************************)
(* check_authentication(cookies).                                          *)
(***************************************************************************)
\* line 104: the test on one cookie name
IsAuthCookieName(k) ==
    \/ Contains(StrAuth, Lower(k))
    \/ Contains(StrSession, Lower(k))
    \/ Contains(StrN8n, Lower(k))

\* line 104: auth_cookies
AuthCookies(cookies) == {k \in DOMAIN cookies : IsAuthCookieName(k)}

\* lines 100-101 without lines 104-107: only the empty set is turned away
NoCookieAtAll(cookies) == DOMAIN cookies = {}

\* lines 100-107: False without a call to the upstream
NoAuthCookie(cookies) == DOMAIN cookies = {} \/ Cardinality(AuthCookies(cookies)) = 0

MeCall(cookies, o) == Call("me", "GET", <<"rest", "me">>, "", cookies, o)

\* line 114 without its test of the status: any answer counts
MeVerdictAnyAnswer(o) == o.ok

\* lines 110-116: the verdict on the answer to GET /rest/me
MeVerdict(o) == IF o.ok THEN o.status = 200 ELSE FALSE

(***************************************************************************)
(* proxy(path).                                                            *)
(***************************************************************************)
\* Flask's answer to a method the route does not allow
MethodNotAllowed == Reply(405, "", "Method Not Allowed", EmptyDict)

\* Flask's automatic answer to OPTIONS
AutomaticOptions == Reply(200, "", "", EmptyDict)

\* str(e) of the exceptions of the model
ErrText(e) ==
    CASE e = "ConnectionError" -> "Connection refused"
      [] e = "Timeout" -> "Read timed out"
      [] e = "AttributeError" -> "'Cookie' object has no attribute 'max_age'"
      [] e = "RuntimeError" -> "dictionary changed size during iteration"
      [] OTHER -> e

\* line 239 with the status of an internal error
ProxyErrorAs500(e) == Reply(500, "Proxy error: ", ErrText(e), EmptyDict)

\* line 239
ProxyError(e) == Reply(502, "Proxy error: ", ErrText(e), EmptyDict)

\* urljoin's removal of dot segments
RECURSIVE RemoveDots(_, _)
RemoveDots(segs, out) ==
    IF Len(segs) = 0 THEN out
    ELSE IF segs[1] = "." THEN RemoveDots(Tail(segs), out)
    ELSE IF segs[1] = ".."
         THEN RemoveDots(Tail(segs),
                         IF Len(out) = 0 THEN out ELSE SubSeq(out, 1, Len(out) - 1))
    ELSE RemoveDots(Tail(segs), Append(out, segs[1]))

\* lines 147-150: the path of target_url under N8N_BASE_URL
TargetPath(path) == IF Len(path) # 0 THEN RemoveDots(path, <<>>) ELSE <<>>

\* lines 169-205: the method of the requests call chosen for request.method
ForwardMethod(m) ==
    CASE m = "GET" -> "GET"
      [] m = "POST" -> "POST"
      [] m = "PUT" -> "PUT"
      [] m = "DELETE" -> "DELETE"
      [] m = "PATCH" -> "PATCH"
      [] OTHER -> m

\* request.headers: werkzeug gives each name in title case
RequestHeaders(raw) ==
    [k \in {Title(n) : n \in DOMAIN raw} |->
        raw[CHOOSE n \in DOMAIN raw : Title(n) = k]]

\* line 159: the headers of the caller that are not forwarded
RequestExcluded == {StrHost, StrConnection, StrContentLength}

\* line 159 without key.lower(): the names compared as they are
ForwardHeadersAsWritten(hd) == Without(hd, (DOMAIN hd) \cap RequestExcluded)

\* lines 157-160: headers, before the Cookie header is set
ForwardHeaders(hd) == Without(hd, {k \in DOMAIN hd : Lower(k) \in RequestExcluded})

\* lines 158-165: the Cookie header of the forwarded request; the caller's
\* own stays when there is nothing merged to replace it
CookieHeader(incoming, merged) == IF DOMAIN merged # {} THEN merged ELSE incoming

\* lines 146-205: the call that forwards request r with the cookies merged
ForwardCall(r, merged, o) ==
    CallWith("forward", ForwardMethod(r.method), TargetPath(r.path), r.query,
             SentCookies(CookieHeader(r.cookies, merged)),
             ForwardHeaders(RequestHeaders(r.headers)), o)

\* line 212: the headers of the upstream's response that are not copied
ResponseExcluded ==
    {StrContentEncoding, StrTransferEncoding, StrContentLength, StrConnection}

\* line 212 without key.lower(): the names compared as they are
CopiedHeadersAsWritten(hd) == Without(hd, (DOMAIN hd) \cap ResponseExcluded)

\* lines 211-213: the headers copied to the caller's response
CopiedHeaders(hd) == Without(hd, {k \in DOMAIN hd : Lower(k) \in ResponseExcluded})

\* The attributes of http.cookiejar.Cookie, the type of the elements of
\* resp.cookies.
CookieAttributes ==
    {"version", "name", "value", "port", "port_specified", "domain",
     "domain_specified", "domain_initial_dot", "path", "path_specified",
     "secure", "expires", "discard", "comment", "comment_url", "rfc2109"}

\* lines 217-225: the attributes read of each cookie of resp.cookies
AttributesRead == {"name", "value", "max_age", "path", "secure", "http_only"}

\* An attribute a Cookie does not have raises AttributeError.
SetCookieRaises == ~(AttributesRead \subseteq CookieAttributes)

\* lines 215-227: session_cookies after the loop over resp.cookies; when
\* set_cookie's arguments raise, the first cookie is stored and no other
CacheAfterResponse(cache, cs) ==
    IF Len(cs) = 0 THEN cache
    ELSE IF SetCookieRaises THEN StoreAll(cache, <<cs[1]>>)
    ELSE StoreAll(cache, cs)

\* lines 215-233: the cookies set on the response to the caller
CookiesSet(authenticated, cache, cs) ==
    LET extra == IF ~authenticated /\ DOMAIN cache # {}
                 THEN [k \in (DOMAIN cache) \ CookieNames(cs) |-> cache[k]]
                 ELSE EmptyDict
    IN  StoreAll(extra, cs)

\* A request of R arrives: Flask answers it itself, or calls proxy(path).
ReceiveOf(h, R) ==
    /\ pc["main"] = "serving"
    /\ pc[h] = "idle"
    /\ \E r \in R :
         /\ req' = [req EXCEPT ![h] = r]
         /\ IF r.method \notin RouteMethods
            THEN /\ pc' = [pc EXCEPT ![h] = "done"]
                 /\ reply' = [reply EXCEPT ![h] = MethodNotAllowed]
            ELSE IF r.method = "OPTIONS"
            THEN /\ pc' = [pc EXCEPT ![h] = "done"]
                 /\ reply' = [reply EXCEPT ![h] = AutomaticOptions]
            ELSE /\ pc' = [pc EXCEPT ![h] = "auth"]
                 /\ reply' = [reply EXCEPT ![h] = NoReply]
    /\ UNCHANGED <<globals, observers, is_authenticated, auto_login_cookies,
                   merged_cookies, calls, err>>
    /\ UNCHANGED untouched

Receive(h) == ReceiveOf(h, Requests)

\* line 129: check_authentication(incoming_cookies)
CheckAuth(h) ==
    /\ pc[h] = "auth"
    /\ IF NoAuthCookie(req[h].cookies)
       THEN /\ is_authenticated' = [is_authenticated EXCEPT ![h] = FALSE]
            /\ pc' = [pc EXCEPT ![h] = "login"]
            /\ UNCHANGED calls
       ELSE \E o \in MeOutcomes(req[h].cookies) :
            /\ calls' = [calls EXCEPT ![h] = Append(@, MeCall(req[h].cookies, o))]
            /\ is_authenticated' = [is_authenticated EXCEPT ![h] = MeVerdict(o)]
            /\ pc' = [pc EXCEPT ![h] = IF MeVerdict(o) THEN "authed" ELSE "login"]
    /\ UNCHANGED <<globals, observers, req, auto_login_cookies, merged_cookies, err, reply>>
    /\ UNCHANGED untouched

\* a handler that calls auto_login() for an authenticated caller too
AuthenticatedThenLogin(h) ==
    /\ pc[h] = "authed"
    /\ session_cookies' = Update(session_cookies, req[h].cookies)
    /\ loginHist' = HistAfterWrite(session_cookies, session_cookies')
    /\ pc' = [pc EXCEPT ![h] = "login"]
    /\ UNCHANGED <<login_attempted, startup, upValid, jar, locals>>
    /\ UNCHANGED untouched

\* lines 141-144: the caller's cookies are used and refresh the cache
Authenticated(h) ==
    /\ pc[h] = "authed"
    /\ merged_cookies' = [merged_cookies EXCEPT ![h] = req[h].cookies]
    /\ session_cookies' = Update(session_cookies, req[h].cookies)
    /\ loginHist' = HistAfterWrite(session_cookies, session_cookies')
    /\ pc' = [pc EXCEPT ![h] = "send"]
    /\ UNCHANGED <<login_attempted, startup, upValid, jar,
                   req, is_authenticated, auto_login_cookies, calls, err, reply>>
    /\ UNCHANGED untouched

\* lines 146-205: the request goes out to the upstream
ForwardSend(h) ==
    /\ pc[h] = "send"
    /\ calls' = [calls EXCEPT ![h] = Append(@, ForwardCall(req[h], merged_cookies[h], Pending))]
    /\ pc' = [pc EXCEPT ![h] = "forwarding"]
    /\ UNCHANGED <<globals, observers, locals_but_calls>>
    /\ UNCHANGED untouched

\* a handler whose try block lets the exception through: it ends unanswered
ForwardReturnUncaught(h) ==
    /\ pc[h] = "forwarding"
    /\ pc' = [pc EXCEPT ![h] = "raised"]
    /\ UNCHANGED <<globals, observers, locals>>
    /\ UNCHANGED untouched

\* a handler that sends the request again when it got no response
ForwardReturnRetrying(h) ==
    /\ pc[h] = "forwarding"
    /\ \E e \in TransportErrors :
         calls' = [calls EXCEPT ![h][Len(calls[h])].outcome = Raised(e)]
    /\ pc' = [pc EXCEPT ![h] = "send"]
    /\ UNCHANGED <<globals, observers, locals_but_calls>>
    /\ UNCHANGED untouched

\* lines 207-239: the upstream's answer, or the exception, becomes the
\* response to the caller
ForwardReturn(h) ==
    /\ pc[h] = "forwarding"
    /\ \E o \in ForwardOutcomes :
         LET cache == CacheAfterResponse(session_cookies, o.cookies)
             e == IF ~o.ok THEN o.err
                  ELSE IF Len(o.cookies) # 0 /\ SetCookieRaises THEN "AttributeError"
                  ELSE "none"
         IN  /\ calls' = [calls EXCEPT ![h][Len(calls[h])].outcome = o]
             /\ session_cookies' = cache
             /\ upValid' = upValid \cup SessionsOpened(o)
             /\ jar' = JarAfter(o)
             /\ err' = [err EXCEPT ![h] = e]
             /\ reply' = [reply EXCEPT ![h] =
                    IF e # "none" THEN ProxyError(e)
                    ELSE ReplyWith(o.status, "", o.body,
                                   CookiesSet(is_authenticated[h], cache, o.cookies),
                                   CopiedHeaders(o.headers))]
    /\ loginHist' = HistAfterWrite(session_cookies, session_cookies')
    /\ pc' = [pc EXCEPT ![h] = "done"]
    /\ UNCHANGED <<login_attempted, startup,
                   req, is_authenticated, auto_login_cookies, merged_cookies>>
    /\ UNCHANGED untouched

\* line 235 or 239: the response is returned and the handler ends
Respond(h) ==
    /\ pc[h] = "done"
    /\ pc' = [pc EXCEPT ![h] = "idle"]
    /\ req' = [req EXCEPT ![h] = NoRequest]
    /\ is_authenticated' = [is_authenticated EXCEPT ![h] = FALSE]
    /\ auto_login_cookies' = [auto_login_cookies EXCEPT ![h] = None]
    /\ merged_cookies' = [merged_cookies EXCEPT ![h] = EmptyDict]
    /\ calls' = [calls EXCEPT ![h] = <<>>]
    /\ err' = [err EXCEPT ![h] = "none"]
    /\ reply' = [reply EXCEPT ![h] = NoReply]
    /\ UNCHANGED <<globals, observers>>
    /\ UNCHANGED untouched

(***************************************************************************)
(* The relay with its requests handled one at a time.                      *)
(***************************************************************************)
Next ==
    \/ WaitForN8n
    \/ StartLogin
    \/ \E c \in SeqHandlers \cup {"main"} : LoginEnter(c)
    \/ \E c \in SeqHandlers \cup {"main"} : LoginReturn(c)
    \/ \E h \in SeqHandlers : Receive(h)
    \/ \E h \in SeqHandlers : CheckAuth(h)
    \/ \E h \in SeqHandlers : Authenticated(h)
    \/ \E h \in SeqHandlers : ForwardSend(h)
    \/ \E h \in SeqHandlers : ForwardReturn(h)
    \/ \E h \in SeqHandlers : Respond(h)
    \/ OpenSession
    \/ ExpireSession

Spec == Init /\ [][Next]_vars

\* A step of proxy(path) for the request of h.
HandlerStep(h) ==
    \/ CheckAuth(h)
    \/ Authenticated(h)
    \/ LoginEnter(h)
    \/ LoginReturn(h)
    \/ ForwardSend(h)
    \/ ForwardReturn(h)
    \/ Respond(h)

\* The steps of the relay alone: the upstream's sessions change with the
\* relay's own logins only.  What /rest/me answers is all that a handler
\* sees of them, and every answer is still met.
RelayNext ==
    \/ WaitForN8n
    \/ StartLogin
    \/ \E c \in SeqHandlers \cup {"main"} : LoginEnter(c)
    \/ \E c \in SeqHandlers \cup {"main"} : LoginReturn(c)
    \/ \E h \in SeqHandlers : Receive(h)
    \/ \E h \in SeqHandlers : CheckAuth(h)
    \/ \E h \in SeqHandlers : Authenticated(h)
    \/ \E h \in SeqHandlers : ForwardSend(h)
    \/ \E h \in SeqHandlers : ForwardReturn(h)
    \/ \E h \in SeqHandlers : Respond(h)

\* The relay with a handler that goes on: between two upstream calls the
\* code runs straight through, and every upstream call has a timeout (5 s
\* at line 113, 10 s at line 72, 30 s at lines 170-204), so that it returns
\* or raises.
FairSpec ==
    Init /\ [][RelayNext]_vars /\ \A h \in SeqHandlers : WF_vars(HandlerStep(h))

(***************************************************************************)
(* The relay with two requests handled at a time.                          *)
(*                                                                         *)
(* app.run() of line 254 serves each request in a thread of its own, and   *)
(* no line of the module takes a lock.  A thread gives way between two     *)
(* bytecodes, and a blocking call of requests is where it waits; a dict    *)
(* operation of the interpreter (an update, a store, the making of a       *)
(* merged dict) is one bytecode.  The loop of lines 231-233 calls          *)
(* set_cookie in its body, so another thread may run between two of its    *)
(* turns.                                                                  *)
(***************************************************************************)
\* The requests of the two callers: GET /workflows without cookies, and
\* with the cookie of a session.
ConcRequests ==
    {Request("GET", <<"workflows">>, "", EmptyDict)}
    \cup {Request("GET", <<"workflows">>, "", AuthDict(t)) : t \in Tokens}

ReceiveBeside(h) == ReceiveOf(h, ConcRequests)

\* What the upstream answers to POST /rest/login: accepted with the cookie
\* of a session, rejected, or no response.
ConcLoginOutcomes ==
    {Response(200, <<Cookie(NameN8nAuth, t)>>) : t \in Tokens}
    \cup {Response(401, <<>>), Raised("Timeout")}

LoginReturnBeside(c) == LoginReturnOf(c, ConcLoginOutcomes)

\* What the upstream answers to a forwarded request: 200 without a cookie,
\* 200 with one, or no response.
ConcForwardOutcomes ==
    {Response(200, <<>>), Response(200, <<Cookie(NameB, 3)>>), Raised("Timeout")}

\* lines 207-231: the upstream's answer, or the exception, up to the making
\* of the iterator of line 231
ResponseArrives(h) ==
    /\ pc[h] = "forwarding"
    /\ \E o \in ConcForwardOutcomes :
         LET cache == CacheAfterResponse(session_cookies, o.cookies)
             e == IF ~o.ok THEN o.err
                  ELSE IF Len(o.cookies) # 0 /\ SetCookieRaises THEN "AttributeError"
                  ELSE "none"
             loops == e = "none" /\ ~is_authenticated[h] /\ DOMAIN cache # {}
         IN  /\ calls' = [calls EXCEPT ![h][Len(calls[h])].outcome = o]
             /\ session_cookies' = cache
             /\ upValid' = upValid \cup SessionsOpened(o)
             /\ jar' = JarAfter(o)
             /\ err' = [err EXCEPT ![h] = e]
             /\ reply' = [reply EXCEPT ![h] =
                    IF e # "none" THEN ProxyError(e)
                    ELSE ReplyWith(o.status, "", o.body, StoreAll(EmptyDict, o.cookies),
                                   CopiedHeaders(o.headers))]
             /\ cookie_items' = [cookie_items EXCEPT ![h] =
                    IF loops THEN Items(cache) ELSE NoItems]
             /\ pc' = [pc EXCEPT ![h] = IF loops THEN "setting" ELSE "done"]
    /\ loginHist' = HistAfterWrite(session_cookies, session_cookies')
    /\ UNCHANGED <<login_attempted, startup,
                   req, is_authenticated, auto_login_cookies, merged_cookies>>
    /\ UNCHANGED <<password_vars, owner_vars, url_vars>>

\* One next() of the iterator of line 231: RuntimeError when the dict has
\* not the size it had when the iterator was made, the end when every name
\* was given, an item otherwise.
NextItem(h) ==
    IF Cardinality(DOMAIN session_cookies) # cookie_items[h].size THEN "RuntimeError"
    ELSE IF cookie_items[h].todo = {} THEN "StopIteration"
    ELSE "item"

\* lines 231-239: one turn of the loop over session_cookies.items().  The
\* order in which the names are given makes no difference to the response.
SetCachedCookie(h) ==
    /\ pc[h] = "setting"
    /\ LET todo == cookie_items[h].todo
           given == NextItem(h)
       IN  IF given = "RuntimeError"
           THEN /\ err' = [err EXCEPT ![h] = "RuntimeError"]
                /\ reply' = [reply EXCEPT ![h] = ProxyError("RuntimeError")]
                /\ cookie_items' = [cookie_items EXCEPT ![h] = NoItems]
                /\ pc' = [pc EXCEPT ![h] = "done"]
           ELSE IF given = "StopIteration"
           THEN /\ cookie_items' = [cookie_items EXCEPT ![h] = NoItems]
                /\ pc' = [pc EXCEPT ![h] = "done"]
                /\ UNCHANGED <<err, reply>>
           ELSE LET name == CHOOSE k \in todo : TRUE
                IN  /\ reply' = [reply EXCEPT ![h].cookies =
                           IF name \in CookieNames(calls[h][Len(calls[h])].outcome.cookies) THEN @
                           ELSE Update(@, Dict1(name, session_cookies[name]))]
                    /\ cookie_items' = [cookie_items EXCEPT ![h].todo = @ \ {name}]
                    /\ UNCHANGED <<err, pc>>
    /\ UNCHANGED <<globals, observers, req, is_authenticated, auto_login_cookies,
                   merged_cookies, calls>>
    /\ UNCHANGED <<password_vars, owner_vars, url_vars>>

ConcNext ==
    \/ WaitForN8n
    \/ StartLogin
    \/ \E c \in Callers : LoginEnter(c)
    \/ \E c \in Callers : LoginReturnBeside(c)
    \/ \E h \in Handlers : ReceiveBeside(h)
    \/ \E h \in Handlers : CheckAuth(h)
    \/ \E h \in Handlers : Authenticated(h)
    \/ \E h \in Handlers : ForwardSend(h)
    \/ \E h \in Handlers : ResponseArrives(h)
    \/ \E h \in Handlers : SetCachedCookie(h)
    \/ \E h \in Handlers : Respond(h)

ConcSpec == Init /\ [][ConcNext]_vars

(***************************************************************************)
(* generate_secure_password(length), src/password_utils.py; the same       *)
(* function is in src/create_owner.py, lines 39-69.                        *)
(***************************************************************************)
\* The longest password asked for.
MaxLength == 5

\* The lengths asked for: below, at and above the four characters of line 32.
Lengths == 0..MaxLength

\* lines 26-29
uppercase == UpperChars
lowercase == LowerChars
digits == <<"0","1","2","3","4","5","6","7","8","9">>
special == <<"!","@","#","$","%","^","&","*","(",")","_","+","-","=",
             "[","]","{","}","|",";",":",",",".","<",">","?">>

\* line 40
all_chars == uppercase \o lowercase \o digits \o special

\* secrets.choice(seq) gives any element of seq; the model draws the first
\* and the last element of each of the four sets.
Drawn == {uppercase[1], uppercase[Len(uppercase)], lowercase[1], lowercase[Len(lowercase)],
          digits[1], digits[Len(digits)], special[1], special[Len(special)]}

choice(seq) == {seq[i] : i \in 1..Len(seq)} \cap Drawn

\* a loop that appends one character for each of the length asked for
TurnsForWholeLength(n) == IF n > 0 THEN n ELSE 0

\* line 41: the turns of  for _ in range(length - 4)
Turns(n) == IF n - 4 > 0 THEN n - 4 ELSE 0

\* The call, with a length of Lengths.
GenCall ==
    /\ gen_pc = "off"
    /\ \E n \in Lengths : length' = n
    /\ password_chars' = <<>>
    /\ password' = <<>>
    /\ gen_pc' = "choose"
    /\ UNCHANGED beside_password

\* lines 32-37: one character of each category
ChooseFour ==
    /\ gen_pc = "choose"
    /\ \E u \in choice(uppercase), l \in choice(lowercase),
          d \in choice(digits), x \in choice(special) :
            password_chars' = <<u, l, d, x>>
    /\ gen_pc' = "fill"
    /\ UNCHANGED <<length, password, beside_password>>

\* lines 41-42: one turn of the loop, or its end
Fill ==
    /\ gen_pc = "fill"
    /\ IF Len(password_chars) - 4 < Turns(length)
       THEN /\ \E c \in choice(all_chars) : password_chars' = Append(password_chars, c)
            /\ gen_pc' = gen_pc
       ELSE /\ gen_pc' = "shuffle"
            /\ password_chars' = password_chars
    /\ UNCHANGED <<length, password, beside_password>>

\* lines 45-47: shuffle gives any order of the list, and join its string
ShuffleAndJoin ==
    /\ gen_pc = "shuffle"
    /\ \E f \in Permutations(1..Len(password_chars)) :
         /\ password_chars' = [i \in 1..Len(password_chars) |-> password_chars[f[i]]]
         /\ password' = password_chars'
    /\ gen_pc' = "returned"
    /\ UNCHANGED <<length, beside_password>>

\* The caller has its password; the function may be called again.
GenDone ==
    /\ gen_pc = "returned"
    /\ gen_pc' = "off"
    /\ length' = 0
    /\ password_chars' = <<>>
    /\ password' = <<>>
    /\ UNCHANGED beside_password

PasswordNext == GenCall \/ ChooseFour \/ Fill \/ ShuffleAndJoin \/ GenDone

PasswordSpec == Init /\ [][PasswordNext]_vars

(***************************************************************************)
(* src/create_owner.py: main and its two wait loops.                       *)
(***************************************************************************)
\* line 35
MAX_RETRIES == 30

\* line 36
RETRY_DELAY == 2

\* The runs of the scripts, one after the other.
MaxRuns == 3

\* psycopg2.connect: a connection, or OperationalError
ConnectOutcomes == {"connected", "OperationalError"}

\* lines 102-122: the table is there, it is not, or psycopg2.Error from the
\* connect or the query
SchemaOutcomes == {"table exists", "no table", "Error"}

\* what a step of main returned
Result(step, value) == [step |-> step, value |-> value]

\* The script is started.
RunCreateOwner ==
    /\ main_pc = "off"
    /\ runs < MaxRuns
    /\ runs' = runs + 1
    /\ main_pc' = "wait_for_database"
    /\ UNCHANGED <<wait_loop, results, account, user_rows, posts, credential_url,
                   exit_status, user_vars, beside_owner>>

\* a loop that sleeps and goes on after its last attempt too
RetriesLeftAfterTheLast(i) == i < MAX_RETRIES

\* lines 88, 128 and 135: another attempt follows attempt i
RetriesLeft(i) == i < MAX_RETRIES - 1

\* One turn of the loop of a wait function: an attempt; True is returned
\* when it succeeds, the loop sleeps and goes on when it fails and is not
\* the last, and False is returned when the last fails.
WaitTurn(step, Outcomes, success) ==
    /\ main_pc = step
    /\ attempts' = attempts + 1
    /\ \E o \in Outcomes :
         /\ last_attempt' = o
         /\ IF o = success
            THEN /\ results' = Append(results, Result(step, TRUE))
                 /\ main_pc' = "main"
                 /\ UNCHANGED <<retry_i, naps>>
            ELSE IF RetriesLeft(retry_i)
            THEN /\ naps' = naps + RETRY_DELAY
                 /\ retry_i' = retry_i + 1
                 /\ UNCHANGED <<results, main_pc>>
            ELSE /\ results' = Append(results, Result(step, FALSE))
                 /\ main_pc' = "main"
                 /\ UNCHANGED <<retry_i, naps>>
    /\ UNCHANGED <<account, user_rows, posts, credential_url, exit_status, user_vars,
                   runs, beside_owner>>

\* lines 72-94
WaitForDatabase == WaitTurn("wait_for_database", ConnectOutcomes, "connected")

\* lines 97-141
WaitForN8nSchema == WaitTurn("wait_for_n8n_schema", SchemaOutcomes, "table exists")

\* a main that waits for the schema before it waits for the database
MainStepsSchemaFirst ==
    <<"wait_for_n8n_schema", "wait_for_database", "create_owner_account">>

\* the steps of main, in the order of lines 450-460
MainSteps == <<"wait_for_database", "wait_for_n8n_schema", "create_owner_account">>

\* lines 450-465: main looks at what the step returned: sys.exit(1) when it
\* is False, the next step when there is one, sys.exit(0) after the last
MainGoesOn ==
    /\ main_pc = "main"
    /\ LET r == results[Len(results)]
       IN  IF ~r.value
           THEN /\ exit_status' = 1
                /\ main_pc' = "exited"
           ELSE IF Len(results) < Len(MainSteps)
           THEN /\ main_pc' = MainSteps[Len(results) + 1]
                /\ UNCHANGED exit_status
           ELSE /\ exit_status' = 0
                /\ main_pc' = "exited"
    /\ retry_i' = 0
    /\ attempts' = 0
    /\ naps' = 0
    /\ last_attempt' = "none"
    /\ UNCHANGED <<results, account, user_rows, posts, credential_url, user_vars,
                   runs, beside_owner>>

\* The process has ended; what it leaves is the table.
ProcessEnds ==
    /\ main_pc = "exited"
    /\ main_pc' = "off"
    /\ results' = <<>>
    /\ account' = "none"
    /\ posts' = <<>>
    /\ credential_url' = NoUrl
    /\ exit_status' = NotExited
    /\ UNCHANGED <<wait_loop, user_rows, user_vars, runs, beside_owner>>

(***************************************************************************)
(* src/create_owner.py: the account and the two notifications.             *)
(***************************************************************************)
\* s.startswith(pre) and s.endswith(suf)
StartsWith(s, pre) == Len(s) >= Len(pre) /\ SubSeq(s, 1, Len(pre)) = pre

EndsWith(s, suf) == Len(s) >= Len(suf) /\ SubSeq(s, Len(s) - Len(suf) + 1, Len(s)) = suf

\* s.replace(old, new, count): the first count occurrences of old, from the
\* left and not overlapping
RECURSIVE ReplaceUpTo(_, _, _, _)
ReplaceUpTo(s, old, new, count) ==
    IF count = 0 \/ Len(s) < Len(old) THEN s
    ELSE IF SubSeq(s, 1, Len(old)) = old
         THEN new \o ReplaceUpTo(SubSeq(s, Len(old) + 1, Len(s)), old, new, count - 1)
    ELSE <<s[1]>> \o ReplaceUpTo(Tail(s), old, new, count)

\* s.replace(old, new)
Replace(s, old, new) == ReplaceUpTo(s, old, new, Len(s))

StrApi == <<"/","a","p","i">>
StrApiSlash == <<"/","a","p","i","/">>
StrSlash == <<"/">>
StrHttp == <<"h","t","t","p">>
StrUrl == <<"u","r","l">>
StrLink == <<"l","i","n","k">>

\* lines 176-193
remove_api_from_url(url) ==
    IF Contains(StrApiSlash, url) THEN Replace(url, StrApiSlash, StrSlash)
    ELSE IF EndsWith(url, StrApi) THEN SubSeq(url, 1, Len(url) - 4)
    ELSE IF Contains(StrApi, url) /\ ~EndsWith(url, StrApi)
         THEN ReplaceUpTo(url, StrApi, <<>>, 1)
    ELSE url

\* line 201
otn_url == <<"h","t","t","p","s",":","/","/","o","t","n",".","g","o",
    "-","e","c","o","m","m","e","r","c","e",".","d","e","/","a","p",
    "i","-","d","o","c","s",".","p","h","p">>

\* line 204
otn_url_cleaned == remove_api_from_url(otn_url)

\* The URLs remove_api_from_url is called with by itself: every string of
\* the characters of "/api" up to MaxUrlLen characters.
UrlChars == {"/", "a", "p", "i"}

Urls == UNION {[1..n -> UrlChars] : n \in 0..MaxUrlLen}

\* lines 176-193, called once more: with the URL given, then with what the
\* call before returned
CleanUrl ==
    /\ Len(cleaned_urls) < MaxCalls
    /\ cleaned_urls' = Append(cleaned_urls,
           remove_api_from_url(IF cleaned_urls = <<>> THEN given_url
                               ELSE cleaned_urls[Len(cleaned_urls)]))
    /\ UNCHANGED <<given_url, relay_vars, password_vars, owner_vars>>

UrlInit ==
    /\ RelayInit /\ PasswordOff /\ OwnerOff(0)
    /\ given_url \in Urls
    /\ cleaned_urls = <<>>

UrlNext == CleanUrl

UrlSpec == UrlInit /\ [][UrlNext]_vars

\* line 260
agentic_url == <<"h","t","t","p","s",":","/","/","a","g","e","n","t",
    "i","c",".","g","o","-","e","c","o","m","m","e","r","c","e",".",
    "d","e","/","w","e","b","h","o","o","k","/","v","1","/","c","r",
    "e","d","e","n","t","i","a","l","s">>

\* The URLs the OTN endpoint answers with: one with /api/ in it, one
\* without, one that is /api and nothing else, and the empty string.
UrlWithApi == <<"h","t","t","p",":","/","/","o","/","a","p","i","/",
    "n","/","1">>
UrlPlain == <<"h","t","t","p",":","/","/","o","/","n","/","1">>
UrlOnlyApi == StrApi
UrlEmpty == <<>>

OtnUrls == {UrlWithApi, UrlPlain, UrlOnlyApi, UrlEmpty}

\* What the OTN endpoint does: 200 with a JSON object of one key, 200 with
\* a JSON string, 200 with a text that is not JSON, another status, or no
\* response.
OtnAnswer(st, shape, key, u) ==
    [ok |-> TRUE, status |-> st, shape |-> shape, key |-> key, value |-> u, err |-> ""]

OtnRaised(e) ==
    [ok |-> FALSE, status |-> 0, shape |-> "", key |-> "", value |-> <<>>, err |-> e]

OtnOutcomes ==
    {OtnAnswer(200, "object", k, u) : k \in {"url", "credential_url", "link", "id"},
                                      u \in {UrlWithApi, UrlOnlyApi}}
    \cup {OtnAnswer(200, "string", "", u) : u \in {UrlPlain, UrlEmpty}}
    \cup {OtnAnswer(200, "text", "", u) : u \in {UrlPlain, UrlOnlyApi}}
    \cup {OtnAnswer(st, "text", "", UrlEmpty) : st \in {404, 500}}
    \cup {OtnRaised(e) : e \in TransportErrors}

\* lines 222-239: the credential URL found in a 200 response, or None.  On
\* a JSON string  'url' in response_data  is a substring test, and
\* response_data['url'] raises TypeError when it is true; the except of
\* line 235 then looks at the text, which begins with the quote of the JSON
\* string.
FoundUrl(o) ==
    CASE o.shape = "object" ->
           IF o.key \in {"url", "credential_url", "link"} THEN Url(o.value) ELSE NoUrl
      [] o.shape = "string" ->
           IF Contains(StrUrl, o.value) \/ Contains(StrLink, o.value) THEN NoUrl
           ELSE Url(o.value)
      [] OTHER ->
           IF StartsWith(o.value, StrHttp) THEN Url(o.value) ELSE NoUrl

\* Python's truth value of a string or None
IsUrl(r) == ~r.none /\ Len(r.url) > 0

\* lines 209-255: what send_otn_notification returns for an outcome
OtnResult(o) ==
    IF o.ok /\ o.status = 200
    THEN Url(remove_api_from_url(IF IsUrl(FoundUrl(o)) THEN FoundUrl(o).url
                                 ELSE otn_url_cleaned))
    ELSE NoUrl

\* What the agentic endpoint does: a status, or no response.
AgenticOutcomes ==
    {[ok |-> TRUE, status |-> st, err |-> ""] : st \in {200, 201, 500}}
    \cup {[ok |-> FALSE, status |-> 0, err |-> e] : e \in TransportErrors}

\* a POST to a notification endpoint
Post(to, url, o) == [to |-> to, url |-> url, outcome |-> o]

\* The columns of table "user" in three versions of the upstream, and a
\* table without columns for the names.
ColumnSets ==
    { {"id", "email", "password", "firstName", "lastName", "role", "createdAt", "updatedAt"},
      {"id", "email", "password", "first_name", "last_name", "globalRole"},
      {"id", "email", "password"} }

\* lines 329-330
NameColumn(columns, camel, snake) ==
    IF camel \in columns THEN camel ELSE IF snake \in columns THEN snake ELSE "None"

\* line 340
NameColumnsMissing(columns) ==
    \/ NameColumn(columns, "firstName", "first_name") = "None"
    \/ NameColumn(columns, "lastName", "last_name") = "None"

\* What the database does to create_owner_account: psycopg2.Error from the
\* connect, from the SELECT, from the INSERT or from the commit, or none.
DatabaseOutcomes ==
    {"connect fails", "select fails", "insert fails", "commit fails", "fine"}

\* a create_owner_account that notifies before it looks for the owner
CreateAccountNotifyingFirst ==
    /\ main_pc = "create_owner_account"
    /\ account' = "existed"
    /\ main_pc' = "send_otn_notification"
    /\ UNCHANGED <<wait_loop, results, user_rows, posts, credential_url, exit_status,
                   user_vars, runs, beside_owner>>

\* lines 305-419: create_owner_account up to the commit.  It returns True
\* when the owner exists, False on psycopg2.Error; the Exception of line 341
\* is caught nowhere and ends the process with status 1; after the commit
\* it goes on to the notifications.
CreateAccount ==
    /\ main_pc = "create_owner_account"
    /\ \E db \in DatabaseOutcomes, columns \in ColumnSets :
         LET how == IF db \in {"connect fails", "select fails"} THEN db
                    ELSE IF user_rows > 0 THEN "existed"
                    ELSE IF NameColumnsMissing(columns) THEN "raised"
                    ELSE IF db \in {"insert fails", "commit fails"} THEN db
                    ELSE "committed"
         IN  /\ account' = how
             /\ user_rows' = (IF how = "committed" THEN user_rows + 1 ELSE user_rows)
             /\ IF how = "committed"
                THEN /\ main_pc' = "send_otn_notification"
                     /\ UNCHANGED <<results, exit_status>>
                ELSE IF how = "raised"
                THEN /\ main_pc' = "exited"
                     /\ exit_status' = 1
                     /\ UNCHANGED results
                ELSE /\ main_pc' = "main"
                     /\ results' = Append(results,
                            Result("create_owner_account", how = "existed"))
                     /\ UNCHANGED exit_status
    /\ UNCHANGED <<wait_loop, posts, credential_url, user_vars, runs, beside_owner>>

\* a create_owner_account that gives up when the OTN endpoint gave no URL
ReturnAfterOtnFalseWithoutUrl(r) == IsUrl(r)

\* line 438: True, whatever send_otn_notification returned
ReturnAfterOtn(r) == TRUE

\* lines 421-438 and 196-255: the POST to the OTN endpoint, and what
\* follows from its outcome: the POST to the agentic endpoint when a URL
\* came back, or the return
SendOtnNotification ==
    /\ main_pc = "send_otn_notification"
    /\ \E o \in OtnOutcomes :
         /\ posts' = Append(posts, Post("otn", otn_url_cleaned, o))
         /\ credential_url' = OtnResult(o)
         /\ IF IsUrl(OtnResult(o))
            THEN /\ main_pc' = "send_agentic_webhook"
                 /\ UNCHANGED results
            ELSE /\ main_pc' = "main"
                 /\ results' = Append(results,
                        Result("create_owner_account", ReturnAfterOtn(OtnResult(o))))
    /\ UNCHANGED <<wait_loop, account, user_rows, exit_status, user_vars, runs, beside_owner>>

\* lines 427-438 and 258-298: the POST to the agentic endpoint, whose
\* outcome is not looked at, and the return of True
SendAgenticWebhook ==
    /\ main_pc = "send_agentic_webhook"
    /\ \E o \in AgenticOutcomes :
         posts' = Append(posts, Post("agentic", agentic_url, o))
    /\ main_pc' = "main"
    /\ results' = Append(results, Result("create_owner_account", TRUE))
    /\ UNCHANGED <<wait_loop, account, user_rows, credential_url, exit_status, user_vars,
                   runs, beside_owner>>

(***************************************************************************)
(* create_or_get_user of src/init_n8n_user.py, and the runs of the two     *)
(* scripts one after the other.                                            *)
(***************************************************************************)
\* What the database does to create_or_get_user: psycopg2.Error from the
\* connect, no table "user", psycopg2.Error from the INSERT or from the
\* commit, or none.
UserDatabaseOutcomes ==
    {"connect fails", "no table", "insert fails", "commit fails", "fine"}

\* a create_or_get_user without the SELECT of lines 97-106
UserFoundNever(rows) == FALSE

\* lines 98-101: existing_user
UserFound(rows) == rows > 0

\* lines 118-124: the columns table "user" may have: id, email and password or none of
\* them, the two name columns in one of three spellings or not at all, the
\* role as a column, as one of two references to table "role", as both a
\* column and a reference, or not at all, and the two timestamps in one of
\* two spellings or not at all.
UserColumnSets ==
    { base \cup names \cup role \cup stamps :
        base \in {{}, {"id", "email", "password"}},
        names \in {{}, {"firstName", "lastName"}, {"firstname", "lastname"},
                   {"first_name", "last_name"}},
        role \in {{}, {"role"}, {"globalRoleId"}, {"global_role_id"},
                  {"role", "globalRoleId"}},
        stamps \in {{}, {"createdAt", "updatedAt"}, {"created_at", "updated_at"}} }

\* What the lookup of the owner's role gives: cur.fetchone() is a row, or
\* None, or the SELECT raises psycopg2.Error.
RoleLookups == {"row", "None", "raises"}

\* lines 149-153 and the like: the first of the names that is a column
RECURSIVE FirstIn(_, _)
FirstIn(names, columns) ==
    IF Len(names) = 0 THEN "None"
    ELSE IF names[1] \in columns THEN names[1]
    ELSE FirstIn(Tail(names), columns)

\* lines 134-136 and the like: one append to each of the three lists
Appended(lists, col, val) ==
    [insert_cols |-> Append(lists.insert_cols, col),
     insert_vals |-> Append(lists.insert_vals, val),
     placeholders |-> Append(lists.placeholders, "%s")]

\* lines 186, 197: the column name alone is appended
AppendedColumn(lists, col) == [lists EXCEPT !.insert_cols = Append(@, col)]

\* lines 133-146: a column that is there is appended with its value
Required(lists, columns, col, val) ==
    IF col \in columns THEN Appended(lists, col, val) ELSE lists

\* lines 155-161 and the like: the camel-case name goes in double quotes
Spelled(lists, found, camel, val) ==
    IF found = "None" THEN lists
    ELSE Appended(lists, IF found = camel THEN "\"" \o camel \o "\"" ELSE found, val)

\* lines 188-194, 198-205: value and placeholder only when a row was found
RoleReference(lists, col, role_result) ==
    IF role_result = "row" THEN Appended(lists, col, "role_result[0]")
    ELSE AppendedColumn(lists, col)

\* lines 179-207: the role assignment
RoleAssigned(lists, columns, role_result) ==
    IF "role" \in columns THEN Appended(lists, "role", "global:owner")
    ELSE IF "globalRoleId" \in columns
         THEN RoleReference(lists, "\"globalRoleId\"", role_result)
    ELSE IF "global_role_id" \in columns
         THEN RoleReference(lists, "global_role_id", role_result)
    ELSE lists

\* lines 188, 198: the table "role" is looked at
RoleLookedUp(columns) ==
    "role" \notin columns /\ ({"globalRoleId", "global_role_id"} \cap columns # {})

\* lines 127-236: the three lists of the INSERT
InsertLists(columns, role_result) ==
    LET ids == Required(Required(Required(NoInsert, columns, "id", "user_id"),
                                 columns, "email", "DEFAULT_USER_EMAIL"),
                        columns, "password", "password_hash")
        first == Spelled(ids, FirstIn(<<"firstName", "firstname", "first_name">>, columns),
                         "firstName", "DEFAULT_USER_FIRST_NAME")
        last == Spelled(first, FirstIn(<<"lastName", "lastname", "last_name">>, columns),
                        "lastName", "DEFAULT_USER_LAST_NAME")
        role == RoleAssigned(last, columns, role_result)
        created == Spelled(role, FirstIn(<<"createdAt", "created_at">>, columns),
                           "createdAt", "now")
    IN  Spelled(created, FirstIn(<<"updatedAt", "updated_at">>, columns),
                "updatedAt", "now")

\* line 248: PostgreSQL takes an INSERT that names at least one column and has as
\* many expressions after VALUES as columns; psycopg2 raises for another.
WellFormed(lists) ==
    /\ Len(lists.insert_cols) > 0
    /\ Len(lists.placeholders) = Len(lists.insert_cols)
    /\ Len(lists.insert_vals) = Len(lists.placeholders)

\* lines 68-269, in a run of init_n8n_user.py: the id of the row found, the
\* id of the row inserted and committed, or None
CreateOrGetUser ==
    /\ main_pc = "off"
    /\ runs < MaxRuns
    /\ runs' = runs + 1
    /\ \E db \in UserDatabaseOutcomes, columns \in UserColumnSets, role_result \in RoleLookups :
         LET lists == InsertLists(columns, role_result)
             how == IF db \in {"connect fails", "no table"} THEN db
                    ELSE IF UserFound(user_rows) THEN "existed"
                    ELSE IF RoleLookedUp(columns) /\ role_result = "raises"
                    THEN "role lookup fails"
                    ELSE IF db = "insert fails" \/ ~WellFormed(lists) THEN "insert fails"
                    ELSE IF db = "commit fails" THEN db
                    ELSE "committed"
         IN  /\ user_rows' = (IF how = "committed" THEN user_rows + 1 ELSE user_rows)
             /\ user_id' = (CASE how = "existed" -> "id of the row found"
                              [] how = "committed" -> "uuid4"
                              [] OTHER -> "None")
             /\ insert_query' =
                    (IF how \in {"insert fails", "commit fails", "committed"}
                     THEN [executed |-> TRUE, lists |-> lists]
                     ELSE insert_query)
    /\ UNCHANGED <<main_pc, wait_loop, results, account, posts, credential_url,
                   exit_status, beside_owner>>

OwnerNext ==
    \/ RunCreateOwner
    \/ WaitForDatabase
    \/ WaitForN8nSchema
    \/ MainGoesOn
    \/ CreateAccount
    \/ SendOtnNotification
    \/ SendAgenticWebhook
    \/ ProcessEnds
    \/ CreateOrGetUser

\* The table holds no row of the owner's email, or one, when the first
\* script is run.
OwnerInit == RelayInit /\ OthersOff /\ \E rows \in {0, 1} : OwnerOff(rows)

OwnerSpec == OwnerInit /\ [][OwnerNext]_vars

(***************************************************************************)
(* What a handler has done.                                                *)
(***************************************************************************)
\* the calls handler h has issued to endpoint ep, as indices of calls[h]
CallsTo(h, ep) == {i \in 1..Len(calls[h]) : calls[h][i].ep = ep}

\* proxy(path) is past check_authentication for the request of h
Checked(h) ==
    \/ pc[h] \in {"login", "loginPost", "authed", "send", "forwarding"}
    \/ pc[h] = "done" /\ CallsTo(h, "forward") # {}

\* the request of h has gone out to the upstream
Sent(h) == pc[h] \in {"forwarding", "done"} /\ CallsTo(h, "forward") # {}

\* the one forwarded call of h
Forwarded(h) == calls[h][CHOOSE i \in CallsTo(h, "forward") : TRUE]

\* an entry of loginHist whose call issued a POST
Posted(e) == e \in {"posting", "warm", "cold", "failed"}

(***************************************************************************)
(* C1.  Two successive calls of auto_login().                              *)
(***************************************************************************)
\* C1 as stated: whatever the upstream does, two successive calls of
\* auto_login() with no change of the cache in between issue exactly one
\* POST /rest/login in total: when the first call issued the POST, the
\* second returns the cache.
C1_OnePostWhateverTheUpstream ==
    (Len(loginHist) = 2 /\ Posted(loginHist[1])) => loginHist[2] = "cached"

\* C1 as amended: two successive calls of auto_login(), with no change of the
\* cache in between, issue exactly one POST in total if and only if the
\* first call's POST was answered 200 and left session_cookies non-empty;
\* after a login that was rejected, got no response, or was accepted with
\* the cache left empty, the second call issues the POST again.
C1_OnePostIffAcceptedWithCookies ==
    (Len(loginHist) = 2 /\ Posted(loginHist[1]))
        => (loginHist[2] = "cached" <=> loginHist[1] = "warm")

\* a login accepted with cookies, then a call answered from the cache
C1_Witness == loginHist = <<"warm", "cached">>

(***************************************************************************)
(* C2.  A stale cache.                                                     *)
(***************************************************************************)
\* the cached login cookies name a session the upstream no longer accepts
StaleCache ==
    /\ login_attempted
    /\ NameN8nAuth \in DOMAIN session_cookies
    /\ session_cookies[NameN8nAuth] \notin upValid

\* C2 as stated: when the cached login cookies have become invalid
\* upstream, a request whose auth check failed makes the relay issue a new
\* POST /rest/login: the step of auto_login() taken from a stale cache is
\* the POST.
C2_StaleCacheTriggersLogin ==
    [][\A h \in Handlers :
         (pc[h] = "login" /\ StaleCache /\ pc'[h] # "login") => pc'[h] = "loginPost"]_vars

(***************************************************************************)
(* C3.  Every method and path is forwarded.                                *)
(***************************************************************************)
\* C3 as stated: every inbound request, whatever its method and path, has
\* been forwarded upstream exactly once when it is answered, with the same
\* method, to the base URL joined with the same path, with the same query.
C3_EveryRequestForwardedOnce ==
    \A h \in Handlers :
        pc[h] = "done" =>
            /\ Cardinality(CallsTo(h, "forward")) = 1
            /\ Forwarded(h).method = req[h].method
            /\ Forwarded(h).path = TargetPath(req[h].path)
            /\ Forwarded(h).query = req[h].query

(***************************************************************************)
(* C4.  The cookies forwarded after a login.                               *)
(***************************************************************************)
\* the union of two cookie sets in which the login's value wins
UnionLoginWins(caller, login) ==
    [k \in (DOMAIN caller) \cup (DOMAIN login) |->
        IF k \in DOMAIN login THEN login[k] ELSE caller[k]]

\* C4: when the caller is not authenticated and auto_login() succeeded, the
\* cookies forwarded are the union of the caller's cookies and the cached
\* cookies, with the cached value for every name of both.
C4_LoginCookiesWin ==
    \A h \in Handlers :
        (pc[h] = "forwarding" /\ ~is_authenticated[h] /\ ~auto_login_cookies[h].none)
            => /\ Cardinality(CallsTo(h, "forward")) = 1
               /\ Forwarded(h).cookies = UnionLoginWins(req[h].cookies, session_cookies)

\* the example of the specification: caller {a:1}, cache {a:2, b:3}
C4_Witness ==
    \E h \in Handlers :
        /\ pc[h] = "forwarding" /\ ~is_authenticated[h] /\ ~auto_login_cookies[h].none
        /\ req[h].cookies = Dict1(NameA, 1)
        /\ session_cookies = Update(Dict1(NameA, 2), Dict1(NameB, 3))
        /\ Forwarded(h).cookies = Update(Dict1(NameA, 2), Dict1(NameB, 3))

(***************************************************************************)
(* C5.  An authenticated caller.                                           *)
(***************************************************************************)
\* C5: when the caller's cookies pass the auth check, no POST /rest/login
\* is issued, the cookies forwarded are exactly the caller's, and the cache
\* holds the caller's value for each of the caller's cookies.
C5_AuthenticatedCallerVerbatim ==
    \A h \in Handlers :
        (is_authenticated[h] /\ pc[h] \in {"send", "forwarding", "done"})
            => /\ CallsTo(h, "login") = {}
               /\ pc[h] \in {"forwarding", "done"} =>
                    /\ Cardinality(CallsTo(h, "forward")) = 1
                    /\ Forwarded(h).cookies = req[h].cookies
               /\ pc[h] \in {"send", "forwarding"} =>
                    \A k \in DOMAIN req[h].cookies :
                        /\ k \in DOMAIN session_cookies
                        /\ session_cookies[k] = req[h].cookies[k]

\* an authenticated caller forwarded while the cache holds a cookie the
\* caller did not send
C5_Witness ==
    \E h \in Handlers :
        /\ is_authenticated[h] /\ pc[h] = "forwarding"
        /\ NameB \in DOMAIN session_cookies
        /\ NameB \notin DOMAIN Forwarded(h).cookies
        /\ Forwarded(h).cookies = req[h].cookies

(***************************************************************************)
(* C6.  A failed login.                                                    *)
(***************************************************************************)
\* the POST /rest/login of h was answered with another status than 200, or
\* with an exception
LoginFailed(h) ==
    \E i \in CallsTo(h, "login") :
        LET o == calls[h][i].outcome IN o.err # "pending" /\ ~(o.ok /\ o.status = 200)

\* C6 as stated: when the caller is not authenticated and the login fails,
\* the request is still forwarded, with exactly the caller's cookies, and
\* the status of the upstream's answer is the status given to the caller.
C6_FailedLoginRelaysUpstream ==
    \A h \in Handlers :
        (pc[h] = "done" /\ ~is_authenticated[h] /\ LoginFailed(h))
            => /\ Cardinality(CallsTo(h, "forward")) = 1
               /\ Forwarded(h).cookies = req[h].cookies
               /\ Forwarded(h).outcome.ok => reply[h].status = Forwarded(h).outcome.status

(***************************************************************************)
(* C7, C8.  check_authentication.                                          *)
(***************************************************************************)
\* The names of the model that contain "auth", "session" or "n8n" in some
\* letter case, told by reading them.
NamesOfASession == {NameN8nAuth, NameSESSION}

\* C7: a cookie set without any such name, the empty one included, is not
\* authenticated and causes no request to the upstream's /rest/me.
C7_NoAuthNameNoCall ==
    \A h \in Handlers :
        (Checked(h) /\ (DOMAIN req[h].cookies) \cap NamesOfASession = {})
            => /\ ~is_authenticated[h]
               /\ CallsTo(h, "me") = {}

\* a caller with a cookie, none of a session, past check_authentication
C7_Witness ==
    \E h \in Handlers :
        /\ pc[h] = "login"
        /\ req[h].cookies = Dict1(NameA, 1)
        /\ ~is_authenticated[h]
        /\ calls[h] = <<>>

\* C8: check_authentication is true exactly when a cookie name is one of a
\* session and GET /rest/me, sent with the caller's cookies, was answered
\* 200; another status or an exception gives false.
C8_AuthenticatedIffNameAnd200 ==
    \A h \in Handlers :
        Checked(h) =>
            (is_authenticated[h] <=>
                /\ (DOMAIN req[h].cookies) \cap NamesOfASession # {}
                /\ \E i \in CallsTo(h, "me") :
                      /\ calls[h][i].method = "GET"
                      /\ calls[h][i].cookies = req[h].cookies
                      /\ calls[h][i].outcome.ok
                      /\ calls[h][i].outcome.status = 200)

\* both verdicts after a call of /rest/me: 401 for a name in capitals
C8_Witness ==
    \E h \in Handlers :
        /\ pc[h] = "login"
        /\ req[h].cookies = Dict1(NameSESSION, 1)
        /\ CallsTo(h, "me") # {}
        /\ calls[h][1].outcome.status = 401
        /\ ~is_authenticated[h]

(***************************************************************************)
(* C9, C10.  Errors of the forwarding.                                     *)
(***************************************************************************)
\* the forwarded call of h got no response
TransportFailed(h) ==
    /\ CallsTo(h, "forward") # {}
    /\ ~Forwarded(h).outcome.ok
    /\ Forwarded(h).outcome.err \in TransportErrors

\* C9: a transport failure of the forwarded call is answered 502 with a
\* body "Proxy error: " and the error's message; the relay goes on serving:
\* the handler returns and the next request can be received.
C9_TransportFailureIs502 ==
    \A h \in Handlers :
        (pc[h] = "done" /\ TransportFailed(h))
            => /\ reply[h].status = 502
               /\ reply[h].prefix = "Proxy error: "
               /\ reply[h].text = ErrText(Forwarded(h).outcome.err)
               /\ reply[h].text # ""
               /\ pc["main"] = "serving"
               /\ ENABLED Respond(h)

\* a refused connection answered 502
C9_Witness ==
    \E h \in Handlers :
        /\ pc[h] = "done"
        /\ TransportFailed(h)
        /\ Forwarded(h).outcome.err = "ConnectionError"
        /\ reply[h].status = 502
        /\ reply[h].text = "Connection refused"

\* C10 as stated: an exception of the try block that is no transport
\* failure is answered 500.
C10_UnexpectedErrorIs500 ==
    \A h \in Handlers :
        (pc[h] = "done" /\ err[h] \notin TransportErrors \cup {"none"})
            => reply[h].status = 500

(***************************************************************************)
(* C11, C12.  What the caller gets back.                                   *)
(***************************************************************************)
\* the cookies a response sets, as a cookie set
AsDict(cs) == StoreAll(EmptyDict, cs)

\* C11 as stated: a caller without cookies sends GET /workflows and
\* auto_login() gives cookies: GET {base}/workflows is forwarded with the
\* merged cookies, and the response to the caller has the upstream's status
\* and body and sets exactly the cookies the upstream's response set.
C11_EndToEndUnchanged ==
    \A h \in Handlers :
        (/\ pc[h] = "done"
         /\ req[h] = Request("GET", <<"workflows">>, "", EmptyDict)
         /\ ~is_authenticated[h]
         /\ Truthy(auto_login_cookies[h]))
            => /\ Cardinality(CallsTo(h, "forward")) = 1
               /\ Forwarded(h).method = "GET"
               /\ Forwarded(h).path = <<"workflows">>
               /\ Forwarded(h).cookies = merged_cookies[h]
               /\ Forwarded(h).outcome.ok =>
                    /\ reply[h].status = Forwarded(h).outcome.status
                    /\ reply[h].text = Forwarded(h).outcome.body
                    /\ reply[h].cookies = AsDict(Forwarded(h).outcome.cookies)

\* C12 as stated: an upstream response that sets cookies is answered with
\* the upstream's status, and each of its cookies is set on the caller's
\* response with the same name and value.
C12_UpstreamCookiesReSet ==
    \A h \in Handlers :
        (/\ pc[h] = "done"
         /\ CallsTo(h, "forward") # {}
         /\ Forwarded(h).outcome.ok
         /\ Len(Forwarded(h).outcome.cookies) > 0)
            => /\ reply[h].status = Forwarded(h).outcome.status
               /\ \A i \in 1..Len(Forwarded(h).outcome.cookies) :
                    LET c == Forwarded(h).outcome.cookies[i]
                    IN  /\ c.name \in DOMAIN reply[h].cookies
                        /\ reply[h].cookies[c.name] = c.value

(***************************************************************************)
(* C13, C14.  The headers.                                                 *)
(***************************************************************************)
\* The response headers of the model that are named Content-Length,
\* Transfer-Encoding, Connection or Content-Encoding in some letter case,
\* told by reading them.
NotToBeCopied ==
    {HdrContentLength, HdrTRANSFERENCODING, HdrConnection, HdrContentEncodingLower}

NotToBeForwarded == {HdrHost, HdrCONNECTION, HdrContentLengthLower}

\* the same header name, letter case apart
SameName(k, n) == Lower(k) = Lower(n)

\* C14: the forwarded request carries none of the caller's Host, Connection
\* and Content-Length headers, in any letter case; it carries every other
\* header of the caller with the caller's value, and no header else; its
\* Cookie header is the merged cookie set when that set is not empty.
C14_RequestHeadersFiltered ==
    \A h \in Handlers :
        (pc[h] \in {"forwarding", "done"} /\ CallsTo(h, "forward") # {}) =>
            LET sent == Forwarded(h).headers
                from == req[h].headers
            IN  /\ \A n \in (DOMAIN from) \cap NotToBeForwarded :
                     ~\E k \in DOMAIN sent : SameName(k, n)
                /\ \A n \in (DOMAIN from) \ NotToBeForwarded :
                     \E k \in DOMAIN sent : SameName(k, n) /\ sent[k] = from[n]
                /\ \A k \in DOMAIN sent : \E n \in DOMAIN from : SameName(k, n)
                /\ DOMAIN merged_cookies[h] # {} =>
                     Forwarded(h).cookies = merged_cookies[h]

\* a caller with the three headers in mixed case and a cookie of its own,
\* forwarded with the two other headers and the merged cookies
C14_Witness ==
    \E h \in Handlers :
        /\ pc[h] = "forwarding"
        /\ req[h].headers = MixedHeaders
        /\ req[h].cookies = Dict1(NameA, 1)
        /\ Cardinality(DOMAIN Forwarded(h).headers) = 2
        /\ NameN8nAuth \in DOMAIN Forwarded(h).cookies

(***************************************************************************)
(* C15.  Nothing is retried.                                               *)
(***************************************************************************)
\* C15: in the handling of one request the handler issues at most one GET
\* /rest/me, at most one POST /rest/login and at most one forwarded
\* request, whatever their outcomes.
C15_NothingRetried ==
    \A h \in Handlers :
        /\ Cardinality(CallsTo(h, "me")) <= 1
        /\ Cardinality(CallsTo(h, "login")) <= 1
        /\ Cardinality(CallsTo(h, "forward")) <= 1
        /\ Len(calls[h]) <= 3

\* a request answered after each of the three calls failed, each issued once
C15_Witness ==
    \E h \in Handlers :
        /\ pc[h] = "done"
        /\ Len(calls[h]) = 3
        /\ calls[h][1].ep = "me" /\ ~calls[h][1].outcome.ok
        /\ calls[h][2].ep = "login" /\ calls[h][2].outcome.status = 401
        /\ calls[h][3].ep = "forward" /\ calls[h][3].outcome.err = "Timeout"

(***************************************************************************)
(* C16.  The startup.                                                      *)
(***************************************************************************)
\* the polling of /healthz: at most 30 GETs; 2 seconds slept after each
\* attempt that another follows; the return at the first 200 with no sleep
\* after it; after the 30th failed attempt the return with 29 sleeps
PollingBounded ==
    /\ polls <= 30
    /\ pc["main"] = "wait" => (polls < 30 /\ slept = 2 * polls)
    /\ pc["main"] = "ready" => (polls >= 1 /\ slept = 2 * (polls - 1))
    /\ pc["main"] = "gaveup" => (polls = 30 /\ slept = 2 * 29)

\* no request is handled before __main__ serves, and neither exhaustion nor
\* a failed login keeps __main__ from going on
ServingNotPrevented ==
    /\ \A h \in Handlers : pc[h] # "idle" => pc["main"] = "serving"
    /\ pc["main"] \in {"ready", "gaveup"} => ENABLED StartLogin
    /\ pc["main"] = "login" => ENABLED LoginEnter("main")
    /\ pc["main"] = "loginPost" => ENABLED LoginReturn("main")
    /\ pc["main"] = "serving" => (\A h \in SeqHandlers : pc[h] = "idle" => ENABLED Receive(h))

\* the steps of __main__: polling ends before the login, no GET /healthz
\* follows the 200 or the 30th attempt, and serving begins with the return
\* of the one initial auto_login()
MainInOrder ==
    /\ pc'["main"] # pc["main"] =>
         \/ pc["main"] = "wait" /\ pc'["main"] \in {"ready", "gaveup"}
         \/ pc["main"] \in {"ready", "gaveup"} /\ pc'["main"] = "login"
         \/ pc["main"] = "login" /\ pc'["main"] \in {"loginPost", "serving"}
         \/ pc["main"] = "loginPost" /\ pc'["main"] = "serving"
    /\ pc["main"] # "wait" => polls' <= polls

\* C16: at startup GET /healthz is polled at most 30 times, the polling
\* stops at the first 200, 2 seconds are waited between two attempts and
\* none after the last, requests are served only after the polling has
\* ended and one login was attempted, and exhaustion does not prevent it.
C16_Startup == [](PollingBounded /\ ServingNotPrevented) /\ [][MainInOrder]_vars

\* the polling given up after 30 attempts and 58 seconds, and going on
C16_Witness ==
    /\ pc["main"] = "gaveup"
    /\ polls = 30
    /\ slept = 58
    /\ ENABLED StartLogin

(***************************************************************************)
(* C17.  The order of a request's handling.                                *)
(***************************************************************************)
\* the call of handler h at index i has been answered
Answered(h, i) == calls[h][i].outcome.err # "pending"

\* what the calls issued so far tell of the order: GET /rest/me comes
\* first, auto_login() comes only after a check that said no, and the
\* forwarded request goes out last, with every call before it answered
CallsInOrder(h) ==
    /\ \A i \in CallsTo(h, "me") : i = 1
    /\ \A i \in CallsTo(h, "login") : \A j \in CallsTo(h, "me") : j < i /\ Answered(h, j)
    /\ (pc[h] \in {"login", "loginPost"} \/ CallsTo(h, "login") # {})
         => (Checked(h) /\ ~is_authenticated[h])
    /\ pc[h] = "authed" => (is_authenticated[h] /\ CallsTo(h, "login") = {})
    /\ \A i \in CallsTo(h, "forward") :
         /\ i = Len(calls[h])
         /\ \A j \in 1..(i - 1) : Answered(h, j)

\* the steps of a handler: RECEIVED (auth), then the check, then
\* AUTHENTICATED (authed) or LOGIN_ATTEMPT (login, loginPost), then
\* FORWARDING (send, forwarding), then the answer (done); a request Flask
\* answers by itself takes no step of proxy
StepsInOrder(h) ==
    pc'[h] # pc[h] =>
        \/ pc[h] = "idle" /\ pc'[h] \in {"auth", "done"}
        \/ pc[h] = "auth" /\ pc'[h] \in {"authed", "login"}
        \/ pc[h] = "authed" /\ pc'[h] = "send"
        \/ pc[h] = "login" /\ pc'[h] \in {"loginPost", "send"}
        \/ pc[h] = "loginPost" /\ pc'[h] = "send"
        \/ pc[h] = "send" /\ pc'[h] = "forwarding"
        \/ pc[h] = "forwarding" /\ pc'[h] = "done"
        \/ pc[h] = "done" /\ pc'[h] = "idle"

\* C17: every request handled goes from RECEIVED to the auth check, from
\* there to AUTHENTICATED or to LOGIN_ATTEMPT, then to FORWARDING and to
\* its answer: the check comes before any login, a login is attempted only
\* after a check that said no, and the request is forwarded only when the
\* check and the login have returned.
C17_HandlingInOrder ==
    /\ [](\A h \in Handlers : CallsInOrder(h))
    /\ [][\A h \in Handlers : StepsInOrder(h)]_vars

\* a request about to be answered after a check that said no and a login,
\* both answered before the request went out
C17_Witness ==
    \E h \in Handlers :
        /\ pc[h] = "forwarding"
        /\ Len(calls[h]) = 3
        /\ calls[h][1].ep = "me" /\ calls[h][1].outcome.status = 401
        /\ calls[h][2].ep = "login" /\ calls[h][2].outcome.status = 200
        /\ calls[h][3].ep = "forward" /\ ~Answered(h, 3)

(***************************************************************************)
(* C18.  Every request ends, and the relay goes on.                        *)
(***************************************************************************)
\* the ends of a request: an answer that is not an error of the relay, the
\* relay's 502, the relay's 500
RESPONDED(h) == pc[h] = "done" /\ err[h] = "none"
ERROR_502(h) == pc[h] = "done" /\ err[h] # "none" /\ reply[h].status = 502
ERROR_500(h) == pc[h] = "done" /\ err[h] # "none" /\ reply[h].status = 500

\* the request of h has ended in exactly one of the three
Ended(h) ==
    \/ RESPONDED(h) /\ ~ERROR_502(h) /\ ~ERROR_500(h)
    \/ ~RESPONDED(h) /\ ERROR_502(h) /\ ~ERROR_500(h)
    \/ ~RESPONDED(h) /\ ~ERROR_502(h) /\ ERROR_500(h)

\* C18: whatever the upstream answers to /rest/me, to /rest/login and to
\* the forwarded request, a status, a timeout or a refusal, every request
\* received ends in exactly one of RESPONDED, ERROR_502 and ERROR_500; the
\* handler then returns, and __main__ goes on serving.
C18_EveryRequestEnds ==
    /\ \A h \in SeqHandlers : (pc[h] # "idle") ~> Ended(h)
    /\ \A h \in SeqHandlers : (pc[h] = "done") ~> (pc[h] = "idle")
    /\ [](\A h \in Handlers : pc[h] = "done" => Ended(h))
    /\ [][pc["main"] = "serving" => pc'["main"] = "serving"]_vars

\* each of the three calls failed, and the request has its answer
C18_Witness ==
    \E h \in Handlers :
        /\ ERROR_502(h)
        /\ Len(calls[h]) = 3
        /\ \A i \in 1..3 : ~calls[h][i].outcome.ok \/ calls[h][i].outcome.status # 200
        /\ pc["main"] = "serving"
        /\ ENABLED Respond(h)

(***************************************************************************)
(* C19.  Where the entries of the cache come from.                         *)
(***************************************************************************)
\* entry k of session_cookies is what it was before the step
Kept(k) == k \in DOMAIN session_cookies /\ session_cookies'[k] = session_cookies[k]

\* the step is the return of auto_login() from an accepted login, and entry
\* k is a cookie of the login's response (the response to __main__'s login
\* is not kept in calls)
FromLogin(k) ==
    \E c \in Callers :
        /\ pc[c] = "loginPost" /\ pc'[c] # "loginPost"
        /\ login_attempted'
        /\ c \in Handlers =>
             LET o == calls'[c][Len(calls'[c])].outcome
             IN  /\ o.ok /\ o.status = 200
                 /\ \E i \in 1..Len(o.cookies) :
                      o.cookies[i] = Cookie(k, session_cookies'[k])

\* the step is line 144 for an authenticated caller, and entry k is a
\* cookie of the request
FromRequest(k) ==
    \E h \in Handlers :
        /\ pc[h] = "authed" /\ pc'[h] # "authed"
        /\ k \in DOMAIN req[h].cookies
        /\ session_cookies'[k] = req[h].cookies[k]

\* the step is line 217 for the response to a forwarded request, and entry
\* k is a cookie of that response
FromForwarded(k) ==
    \E h \in Handlers :
        /\ pc[h] = "forwarding" /\ pc'[h] = "done"
        /\ LET o == calls'[h][Len(calls'[h])].outcome
           IN  /\ o.ok
               /\ \E i \in 1..Len(o.cookies) :
                    o.cookies[i] = Cookie(k, session_cookies'[k])

\* C19 as stated: an entry of the cache is written by the relay's own
\* accepted login or from the cookies of an incoming request, and by
\* nothing else.
C19_TwoSourcesOfTheCache ==
    [][\A k \in DOMAIN session_cookies' : Kept(k) \/ FromLogin(k) \/ FromRequest(k)]_vars

\* C19 as amended: an entry of the cache is written by the relay's own
\* accepted login, from the cookies of an authenticated incoming request,
\* or from a cookie of the upstream's response to a forwarded request, and
\* by nothing else.
C19_ThreeSourcesOfTheCache ==
    [][\A k \in DOMAIN session_cookies' :
         Kept(k) \/ FromLogin(k) \/ FromRequest(k) \/ FromForwarded(k)]_vars

\* no login was ever accepted, the caller sent no cookie, and the cache
\* holds the cookie the forwarded response set
C19_Witness ==
    \E h \in Handlers :
        /\ pc[h] = "done"
        /\ ~login_attempted
        /\ req[h].cookies = EmptyDict
        /\ CallsTo(h, "forward") # {}
        /\ Forwarded(h).outcome.cookies = <<Cookie(NameB, 3)>>
        /\ session_cookies = Dict1(NameB, 3)

(***************************************************************************)
(* C20.  What one request leaves to the next.                              *)
(***************************************************************************)
\* The request whose handlings are compared: GET /workflows without cookies.
Plain == Request("GET", <<"workflows">>, "", EmptyDict)

\* Contents of the cache.
CacheContents == {AsDict(cs) : cs \in ResponseCookieSeqs \cup LoginCookieSeqs}

\* a handling of Plain that found the cache at C has issued POST /rest/login
PostedWith(C) ==
    \E h \in Handlers :
        /\ pc[h] = "loginPost"
        /\ req[h] = Plain
        /\ session_cookies = C

\* a handling of Plain that found the cache at C goes on with the cached
\* cookies and without a POST
CachedWith(C) ==
    \E h \in Handlers :
        /\ pc[h] = "send"
        /\ req[h] = Plain
        /\ CallsTo(h, "login") = {}
        /\ session_cookies = C

\* C20 as stated: the cache is all that a handling leaves to a later one;
\* so, for each contents of the cache, the handlings of GET /workflows
\* without cookies that find the cache at these contents behave alike up
\* to the first answer of the upstream: all of them issue POST /rest/login
\* or none does.
C20_CacheAloneDecides ==
    \A C \in CacheContents : [](~PostedWith(C)) \/ [](~CachedWith(C))

\* what a handling reads of the state other handlings leave: the cache and
\* login_attempted when auto_login() decides on the POST, and the cache
\* when the cookies are merged
ReadsCacheAndFlag ==
    \A h \in Handlers :
        (pc[h] = "login" /\ pc'[h] # "login") =>
            /\ (pc'[h] = "loginPost") = ~(login_attempted /\ DOMAIN session_cookies # {})
            /\ pc'[h] = "send" =>
                 merged_cookies'[h] = UnionLoginWins(req[h].cookies, session_cookies)

\* and the Session's jar when the request goes out without a Cookie header
ReadsJar ==
    \A h \in Handlers :
        (pc[h] = "send" /\ pc'[h] = "forwarding") =>
            Forwarded(h)'.cookies =
                IF DOMAIN merged_cookies[h] # {} THEN merged_cookies[h] ELSE jar

\* C20 as amended: the cache, the flag login_attempted and the cookie jar
\* of the requests Session are what a handling leaves to a later one: with
\* these three equal, the decision on the POST, the cookies merged and the
\* cookies the request goes out with are the same for the same request.
C20_CacheFlagAndJarDecide == [][ReadsCacheAndFlag /\ ReadsJar]_vars

\* two states of the relay with the same cache, in which the flag and the
\* jar make the difference: no login was accepted, the cache and the jar
\* hold the cookie of a forwarded response, and the request goes out with
\* the jar's cookie though nothing was merged
C20_Witness ==
    \E h \in Handlers :
        /\ pc[h] = "forwarding"
        /\ req[h] = Plain
        /\ ~login_attempted
        /\ session_cookies = Dict1(NameB, 3)
        /\ CallsTo(h, "login") # {}
        /\ merged_cookies[h] = EmptyDict
        /\ Forwarded(h).cookies = Dict1(NameB, 3)

(***************************************************************************)
(* C21.  The cache under two handlers.                                     *)
(***************************************************************************)
\* handler h is in the loop of line 231 over the cache
Iterating(h) == pc[h] = "setting"

\* C21 as stated: with two requests handled at a time, the reads and the
\* writes of the cache exclude each other: while a handler is in its loop
\* over the cache, the cache keeps the size it had when the loop began, and
\* no request is answered with the error of a dict that changed size during
\* the iteration.
C21_CacheAccessExclusive ==
    \A h \in Handlers :
        /\ Iterating(h) => Cardinality(DOMAIN session_cookies) = cookie_items[h].size
        /\ err[h] # "RuntimeError"

(***************************************************************************)
(* C22.  What auto_login() does with the answer to its POST.               *)
(***************************************************************************)
\* the step is the return of auto_login() to caller c from a POST
ReturnsFromPost(c) == pc[c] = "loginPost" /\ pc'[c] # "loginPost"

\* the answer to the POST of handler h, after the step
LoginAnswer(h) == calls'[h][Len(calls'[h])].outcome

\* after 200: each cookie of the response is in the cache with its value
\* (told only for a handler: the answer to the login of __main__ is not
\* kept), the flag is set, and the cache is what is returned
AfterAccepted(c) ==
    /\ c \in Handlers =>
         \A i \in 1..Len(LoginAnswer(c).cookies) :
             /\ LoginAnswer(c).cookies[i].name \in DOMAIN session_cookies'
             /\ session_cookies'[LoginAnswer(c).cookies[i].name]
                    = LoginAnswer(c).cookies[i].value
    /\ \A k \in DOMAIN session_cookies :
         k \in DOMAIN session_cookies'
    /\ login_attempted'
    /\ auto_login_cookies'[c] = Returned(session_cookies')

\* after another status, or an exception: nothing is written, None is
\* returned
AfterRefused(c) ==
    /\ session_cookies' = session_cookies
    /\ login_attempted' = login_attempted
    /\ auto_login_cookies'[c] = None

\* C22: when auto_login() returns from its POST, then after 200 every
\* cookie of the login response is in the cache with the response's value
\* and the cache is what the caller gets; after another status or an
\* exception the cache and login_attempted are what they were and the
\* caller gets None.
C22_LoginAnswerHandled ==
    [][\A c \in Callers :
         ReturnsFromPost(c) =>
            /\ AfterAccepted(c) \/ AfterRefused(c)
            /\ c \in Handlers =>
                 IF LoginAnswer(c).ok /\ LoginAnswer(c).status = 200
                 THEN AfterAccepted(c) ELSE AfterRefused(c)]_vars

\* a login accepted with two cookies over a cache that held the cookie of a
\* caller's session: the cache has the response's values and is what was
\* returned
C22_Witness ==
    \E h \in Handlers :
        /\ pc[h] = "send"
        /\ CallsTo(h, "login") # {}
        /\ calls[h][Len(calls[h])].outcome = Response(200, <<Cookie(NameA, 2), Cookie(NameB, 3)>>)
        /\ NameN8nAuth \in DOMAIN session_cookies
        /\ session_cookies[NameA] = 2 /\ session_cookies[NameB] = 3
        /\ auto_login_cookies[h] = Returned(session_cookies)

(***************************************************************************)
(* C23.  The password generated.                                           *)
(***************************************************************************)
\* string s has a character of the sequence set
HasOneOf(s, set) == \E i \in 1..Len(s) : \E j \in 1..Len(set) : s[i] = set[j]

AllFourCategories(s) ==
    /\ HasOneOf(s, uppercase)
    /\ HasOneOf(s, lowercase)
    /\ HasOneOf(s, digits)
    /\ HasOneOf(s, special)

SuccessOf(step) ==
    IF step = "wait_for_database" THEN "connected" ELSE "table exists"

\* the wait function step has just returned value to main
JustReturned(step, value) ==
    /\ main_pc = "main"
    /\ results[Len(results)] = Result(step, value)

\* the loop of step: while it runs, every attempt made has failed and was
\* followed by a sleep of RETRY_DELAY; it has returned True with its first
\* attempt that succeeded and no sleep after it; it has returned False with
\* the 30th attempt failed and 29 sleeps
RetriesBounded(step) ==
    /\ attempts <= 30
    /\ main_pc = step =>
         /\ attempts < 30
         /\ last_attempt # SuccessOf(step)
         /\ naps = 2 * attempts
    /\ JustReturned(step, TRUE) =>
         /\ attempts >= 1
         /\ last_attempt = SuccessOf(step)
         /\ naps = 2 * (attempts - 1)
    /\ JustReturned(step, FALSE) =>
         /\ attempts = 30
         /\ last_attempt # SuccessOf(step)
         /\ naps = 2 * 29

\* no attempt is made once the function has returned
NoAttemptAfterReturn ==
    main_pc \notin {"wait_for_database", "wait_for_n8n_schema"} => attempts' <= attempts

\* C24: wait_for_database and wait_for_n8n_schema each make at most 30
\* attempts, return True at the first attempt that succeeds and make no
\* attempt after it, sleep RETRY_DELAY between two attempts and not after
\* the last, and return False when all 30 attempts have failed.
C24_WaitLoopsBounded ==
    /\ [](RetriesBounded("wait_for_database") /\ RetriesBounded("wait_for_n8n_schema"))
    /\ [][NoAttemptAfterReturn]_vars

\* the schema wait given up after 30 attempts and 58 seconds, after a
\* database wait that returned True
C24_Witness ==
    /\ JustReturned("wait_for_n8n_schema", FALSE)
    /\ results[1] = Result("wait_for_database", TRUE)
    /\ attempts = 30
    /\ naps = 58

(***************************************************************************)
(* C25.  The notifications come after the account.                         *)
(***************************************************************************)
\* the POSTs of the run to endpoint to, as indices of posts
PostsTo(to) == {i \in 1..Len(posts) : posts[i].to = to}

\* C25: in create_owner_account the POST to the OTN endpoint is issued only
\* after the INSERT of the owner's row was committed, the POST to the
\* agentic endpoint only after the OTN call returned a credential URL, and
\* neither when the owner existed or the INSERT or its commit failed.
C25_NotificationsAfterBootstrap ==
    /\ main_pc \in {"send_otn_notification", "send_agentic_webhook"} =>
         account = "committed"
    /\ posts # <<>> =>
         /\ account = "committed"
         /\ user_rows >= 1
         /\ posts[1].to = "otn"
    /\ \A i \in PostsTo("agentic") :
         /\ i = 2
         /\ posts[1].outcome.ok /\ posts[1].outcome.status = 200
         /\ IsUrl(credential_url)
         /\ credential_url = OtnResult(posts[1].outcome)
    /\ account \in {"existed", "connect fails", "select fails", "insert fails",
                     "commit fails", "raised", "none"} => posts = <<>>

\* both POSTs issued, the second with the URL the first returned, after
\* the commit
C25_Witness ==
    /\ account = "committed"
    /\ Len(posts) = 2
    /\ posts[1].to = "otn" /\ posts[1].outcome.value = UrlWithApi
    /\ posts[2].to = "agentic"
    /\ credential_url = Url(UrlPlain)

(***************************************************************************)
(* C26.  The notifications are fire-and-forget.                            *)
(***************************************************************************)
\* create_owner_account has returned to main
AccountReturned == main_pc \in {"main", "exited"} /\ Len(results) = 3

\* C26: whatever the OTN and the agentic endpoint do, create_owner_account
\* returns True once the row is committed, the committed row stays in the
\* table, and each endpoint gets at most one POST.
C26_FireAndForget ==
    /\ [](account = "committed" =>
            /\ user_rows >= 1
            /\ Cardinality(PostsTo("otn")) <= 1
            /\ Cardinality(PostsTo("agentic")) <= 1
            /\ Len(posts) <= 2
            /\ AccountReturned => results[3] = Result("create_owner_account", TRUE)
            /\ main_pc = "exited" => exit_status = 0)
    /\ [][user_rows' >= user_rows]_vars

\* the OTN endpoint gave no response, or the agentic endpoint answered 500,
\* and create_owner_account has returned True with the row in the table
C26_Witness ==
    /\ account = "committed"
    /\ AccountReturned
    /\ results[3].value
    /\ user_rows = 1
    /\ \/ Len(posts) = 1 /\ ~posts[1].outcome.ok
       \/ Len(posts) = 2 /\ posts[2].outcome.status = 500

(***************************************************************************)
(* C27.  The steps of create_owner.main.                                   *)
(***************************************************************************)
\* the order of the steps, read from lines 450, 455 and 460
StepsOfMain == <<"wait_for_database", "wait_for_n8n_schema", "create_owner_account">>

\* a step of main is running
Running(step) ==
    \/ main_pc = step
    \/ step = "create_owner_account"
         /\ main_pc \in {"send_otn_notification", "send_agentic_webhook"}

\* C27: main runs the database wait, the schema wait and the account
\* creation in this order, each only when every step before it returned
\* True; it exits with status 1 at the first step that fails, with no step
\* after it, and with status 0 only when the three steps returned True.
C27_MainInOrder ==
    /\ Len(results) <= 3
    /\ \A i \in 1..Len(results) :
         /\ results[i].step = StepsOfMain[i]
         /\ i < Len(results) => results[i].value
    /\ \A i \in 1..3 :
         Running(StepsOfMain[i]) =>
            /\ Len(results) = i - 1
            /\ \A j \in 1..Len(results) : results[j].value
    /\ exit_status \in {NotExited, 0, 1}
    /\ (main_pc = "exited") = (exit_status # NotExited)
    /\ exit_status = 0 => (Len(results) = 3 /\ \A j \in 1..3 : results[j].value)
    /\ exit_status = 1 =>
         \/ ~results[Len(results)].value
         \/ Len(results) = 2 /\ account = "raised"

\* the exit with status 1 after the schema wait returned False: the
\* account was not touched
C27_Witness ==
    /\ exit_status = 1
    /\ results = <<Result("wait_for_database", TRUE), Result("wait_for_n8n_schema", FALSE)>>
    /\ account = "none"

(***************************************************************************)
(* C28.  The owner is created once.                                        *)
(***************************************************************************)
\* the step is create_owner_account up to its commit
AccountStep == main_pc = "create_owner_account" /\ main_pc' # main_pc

\* the step is a call of create_or_get_user
UserStep == main_pc = "off" /\ main_pc' = "off" /\ runs' # runs

\* with a row of the owner's email in the table, and the database answering
\* the connect and the SELECT, create_owner_account returns True and
\* create_or_get_user the id of the row, and no row is added
NoSecondInsert ==
    user_rows > 0 =>
        /\ user_rows' = user_rows
        /\ (AccountStep /\ account' \notin {"connect fails", "select fails"}) =>
             /\ account' = "existed"
             /\ main_pc' = "main"
             /\ results' = Append(results, Result("create_owner_account", TRUE))
             /\ posts' = posts
        /\ (UserStep /\ user_id' # "None") => user_id' = "id of the row found"

\* C28: when a row with the owner's email exists, create_owner_account and
\* create_or_get_user insert nothing and report success, so that after any
\* number of runs one after the other the table holds at most one row with
\* that email.
C28_OwnerCreatedOnce ==
    /\ [](user_rows <= 1)
    /\ [][NoSecondInsert]_vars

\* the row that create_or_get_user inserted was found by a later run of
\* create_owner.py, which has exited with status 0
C28_Witness ==
    /\ user_rows = 1
    /\ user_id = "uuid4"
    /\ account = "existed"
    /\ exit_status = 0
    /\ runs >= 2

(***************************************************************************)
(* C29.  Two requests at a time and the login.                             *)
(***************************************************************************)
\* the request of h is being handled, and its caller is not authenticated
HandledUnauthenticated(h) == pc[h] # "idle" /\ ~is_authenticated[h]

\* the upstream has refused no login of h: each POST of h is unanswered or
\* was answered 200
NoLoginRefused(h) ==
    \A i \in CallsTo(h, "login") :
        LET o == calls[h][i].outcome
        IN  o.err = "pending" \/ (o.ok /\ o.status = 200)

\* C29 as stated: when two requests of unauthenticated callers are handled
\* at the same time, the cache is still as empty as it was when they were
\* received, and the upstream has refused no login, their handlers have
\* issued at most one POST /rest/login between them.
C29_OneLoginForTwoRequests ==
    (/\ \A h \in Handlers : HandledUnauthenticated(h) /\ NoLoginRefused(h)
     /\ session_cookies = EmptyDict)
        => Cardinality(CallsTo("h1", "login")) + Cardinality(CallsTo("h2", "login")) <= 1

(***************************************************************************)
(* C30.  What one caller gets of another.                                  *)
(***************************************************************************)
\* Cookie a=1 enters the relay in request cookies of caller A and nowhere
\* else: the upstream sets a=2, and caller B sends no cookie.
OfCallerA(cookies) == NameA \in DOMAIN cookies /\ cookies[NameA] = 1

\* C30 as stated: a cookie value that entered the relay only in the
\* request cookies of caller A is not sent upstream for caller B and is not
\* set on a response to caller B.
C30_CallerIsolation ==
    \A h \in Handlers :
        req[h].who = "B" =>
            /\ \A i \in CallsTo(h, "forward") : ~OfCallerA(calls[h][i].cookies)
            /\ ~OfCallerA(reply[h].cookies)

(***************************************************************************)
(* C31.  The cache only grows.                                             *)
(***************************************************************************)
\* a POST /rest/login goes out in this step
LoginPosted == \E c \in Callers : pc[c] = "login" /\ pc'[c] = "loginPost"

\* C31: no step removes a cookie name from session_cookies, no step resets
\* login_attempted from True to False, and no step issues a POST
\* /rest/login once login_attempted is True and session_cookies is not
\* empty, which is how every login that succeeded with a non-empty cache
\* leaves them.
C31_CacheOnlyGrows ==
    [][/\ DOMAIN session_cookies \subseteq DOMAIN session_cookies'
       /\ login_attempted => login_attempted'
       /\ (login_attempted /\ session_cookies # EmptyDict) => ~LoginPosted]_vars

\* After a login that succeeded, with cookies in the cache, the request of
\* an unauthenticated caller is through auto_login() without a POST.
C31_Witness ==
    /\ login_attempted
    /\ session_cookies # EmptyDict
    /\ pc["h1"] = "send"
    /\ ~is_authenticated["h1"]
    /\ CallsTo("h1", "login") = {}

(***************************************************************************)
(* C32.  The INSERT of create_or_get_user.                                 *)
(***************************************************************************)
\* C32 as stated: the INSERT that create_or_get_user has executed has as
\* many placeholders, and as many values, as it has column names.
C32_PlaceholdersMatchColumns ==
    insert_query.executed =>
        /\ Len(insert_query.lists.placeholders) = Len(insert_query.lists.insert_cols)
        /\ Len(insert_query.lists.insert_vals) = Len(insert_query.lists.insert_cols)

(***************************************************************************)
(* C33.  remove_api_from_url.                                              *)
(***************************************************************************)
\* C33 as stated: a URL without "/api" comes back unchanged, what comes
\* back holds no "/api", and a second call returns what the first returned.
C33_ApiRemovedOnceAndForAll ==
    /\ Len(cleaned_urls) >= 1 =>
         /\ ~Contains(StrApi, given_url) => cleaned_urls[1] = given_url
         /\ ~Contains(StrApi, cleaned_urls[1])
    /\ Len(cleaned_urls) >= 2 => cleaned_urls[2] = cleaned_urls[1]

====
